---- MODULE Spec2Model ----
(***************************************************************************)
(* A model of mailbackup's consistency and concurrency engine:             *)
(*   - utils.atomic_upload_file and uploader.upload_email (publish and     *)
(*     verify), integrity.repair_remote (repair),                          *)
(*   - manifest.ManifestManager (queue, dump file, CAS-style resync),      *)
(*   - executor.ManagedThreadPoolExecutor (map / interrupt).               *)
(* Three specifications share the module: SpecUpload, SpecManifest and     *)
(* SpecExec. Each leaves the variables of the other parts unchanged.       *)
(***************************************************************************)
EXTENDS Integers, Sequences, FiniteSets, TLC

VARIABLES
    \* ---- local catalog and local files (db.py, maildir) ----
    db,             \* row -> [synced, hash_sha256, remote_path]
    localExists,    \* row -> the message's source file exists on disk
    \* ---- remote store (rclone.py) ----
    hashsumSupported, \* the remote answers `rclone hashsum SHA256`
    remoteEmail,    \* row -> content of <remote>/<year>/<folder>/email.eml
    remoteAux,      \* row -> content of <remote>/<year>/<folder>/info.json
    tmpObj,         \* row -> content of the in-flight "<final>.tmp.<uuid>" object
    \* ---- upload_email / repair_remote activations ----
    pc,             \* row -> control point of the call working on that row
    call,           \* row -> locals of that call
    verifiedPublish,\* row -> the object now at the row's path was verified after
                    \*        it was published (history)
    \* ---- ManifestManager, one per process (manifest.py) ----
    manifestQueue,  \* writer -> _manifest_queue (path -> sha)
    queueDump,      \* writer -> manifest.queue.json ([exists, data])
    lk,             \* Main's _lock and the threads inside queue_entry and
                    \* upload_manifest_if_needed
    localManifest,  \* writer -> settings.manifest_path ([exists, data])
    downloadFile,   \* writer -> tmp_dir/manifest.remote.csv ([exists, data])
    inprogress,     \* writer -> tmp_dir/manifest.uploading exists
    rs,             \* writer -> locals of upload_manifest_resilient
    \* ---- the manifest objects of the shared remote ----
    canon,          \* manifest_remote_path ([exists, data])
    remoteTmps,     \* the manifest.csv.<uuid>.tmp objects
    conflictCopies, \* the manifest.conflict.<uuid>.csv objects
    \* ---- history and bookkeeping of the manifest part ----
    handed,         \* writer -> every entry it ever passed to queue_entry
    outcome,        \* writer -> how its last resync ended
    queued,         \* writer -> number of queue_entry calls made
    faults,         \* number of failed I/O operations so far
    life,           \* writer -> history of its process: kills, entries at stake
    \* ---- executor.py: pools, the global interrupt manager, callers ----
    globalFlag,     \* GlobalInterruptManager._global_flag
    registered,     \* GlobalInterruptManager._executors
    localFlag,      \* pool -> interrupt_flag
    executor,       \* pool -> _executor is a live ThreadPoolExecutor
    phase,          \* pool -> position of the `with` block using the pool
    task,           \* pool -> item -> state of the item's future
    m,              \* pool -> locals of the map call on the pool
    ipc,            \* pool -> position of a thread inside interrupt()
    gpc,            \* position of a thread inside interrupt_all()
    \* ---- integrity.py: one integrity_check and the run's counters ----
    audit,          \* locals of integrity_check
    auditFile,      \* tmp_dir/manifest.csv ([exists, data])
    repair_on_failure, \* settings.repair_on_failure
    stats           \* the run's stats dict: repaired, verified

upVars  == <<db, localExists, hashsumSupported, remoteEmail, remoteAux, tmpObj,
             pc, call, verifiedPublish>>
qVars   == <<manifestQueue, queueDump, lk>>
manVars == <<localManifest, downloadFile, inprogress, rs, canon, remoteTmps,
             conflictCopies, handed, outcome, queued, faults, life>>
exVars  == <<globalFlag, registered, localFlag, executor, phase, task, m,
             ipc, gpc>>
auVars  == <<audit, auditFile, repair_on_failure, stats>>
nonUpVars == <<manVars, exVars, auVars>>
vars    == <<upVars, qVars, manVars, exVars, auVars>>

----------------------------------------------------------------------------
(* Bounds of the model *)
NumRows    == 1
NumWriters == 2
MaxEntries == 2     \* queue_entry calls per writer
MaxFaults  == 1     \* failing I/O operations per behaviour
max_retries == 2    \* settings.max_manifest_conflict_retries
NumPools   == 1     \* pools created by the program
NumItems   == 2     \* len(items) of a map call
max_workers == 1    \* threads of a pool
NumScoped  == 1     \* pools that open and close their scope without a map call
NumThreads == 2     \* worker threads calling queue_entry on one manager

Rows    == 1..NumRows
Writers == 1..NumWriters
Pools   == 1..NumPools
Scoped  == (NumPools + 1)..(NumPools + NumScoped)
AllPools == Pools \cup Scoped
Threads == 1..NumThreads

\* the process running the upload and check stages
Main == 1
Items   == 1..NumItems

(* Program constants *)
max_attempts == 3

(* Content hashes. GoodHash is the sha256 of the row's own message file     *)
(* (hash_email); BadHash is the sha256 of any other (truncated, garbled)    *)
(* content. A remote object is named by the hash of its content.           *)
GoodHash == "h1"
BadHash  == "h2"
Hashes   == {GoodHash, BadHash}
Absent   == "absent"
Contents == Hashes \cup {Absent}

(* remote_path values of a catalog row: empty, or the path both            *)
(* upload_email and repair_remote derive from the row's metadata            *)
(* ("<year>/<folder>/email.eml"); the path of row r is r.                   *)
NoPath    == 0
PathOf(r) == r

\* the remote_path an earlier run stored for the row when it derived the
\* folder from other metadata (parse_mail_date falls back to the time of
\* the call for a Date header it cannot parse)
StalePath(r) == r + NumRows

\* a row not uploaded yet, and a row an earlier run has marked synced
FreshRow == [synced |-> FALSE, hash_sha256 |-> Absent, remote_path |-> NoPath]
EarlierRow(r) == [synced |-> TRUE, hash_sha256 |-> GoodHash,
                  remote_path |-> StalePath(r)]

(* dict helpers *)
EmptyDict == [k \in {} |-> GoodHash]
Single(k, v) == [x \in {k} |-> v]
\* dict.update: the later source wins on a key collision
Update(d, e) == [k \in (DOMAIN d) \cup (DOMAIN e) |-> IF k \in DOMAIN e THEN e[k] ELSE d[k]]

NoFile == [exists |-> FALSE, data |-> EmptyDict]
File(d) == [exists |-> TRUE, data |-> d]

(* ManifestManager._lock of the first writer, stepwise: holder is the      *)
(* thread inside a `with self._lock` block (a worker, the thread calling   *)
(* upload_manifest_if_needed, or nobody); fpc and snapshot are the         *)
(* position and the local of upload_manifest_if_needed, qpc and qent the   *)
(* position and the arguments of each worker's queue_entry; passed is      *)
(* history: the entries of every snapshot given to                         *)
(* upload_manifest_resilient so far; hpc is the position of on_interrupt,  *)
(* which runs in the thread calling upload_manifest_if_needed.             *)
NoHolder == 0
Flusher == NumThreads + 1
IdleLk == [holder |-> NoHolder, fpc |-> "idle", snapshot |-> EmptyDict,
           passed |-> EmptyDict, hpc |-> "none",
           qpc |-> [t \in Threads |-> "idle"],
           qent |-> [t \in Threads |-> EmptyDict]]

----------------------------------------------------------------------------
(* ManifestManager.queue_entry: under the lock, add the entry and write    *)
(* the whole queue to manifest.queue.json; a failing write is logged and   *)
(* swallowed.                                                               *)
queue_entry(w, p, h, writeOk) ==
    /\ manifestQueue' = [manifestQueue EXCEPT ![w] = Update(@, Single(p, h))]
    /\ queueDump' = IF writeOk
                      THEN [queueDump EXCEPT ![w] = File(manifestQueue'[w])]
                      ELSE queueDump
    /\ UNCHANGED lk

----------------------------------------------------------------------------
(* State of the manifest part before any ManifestManager call *)

\* the locals of upload_manifest_resilient when no call is running; prev
\* tells whether the call that returned last had extra entries, h0 is the
\* canonical manifest a call without extra entries found when it began
IdleRs == [pc |-> "idle", extra |-> EmptyDict, local_entries |-> EmptyDict,
           remote_sha |-> NoFile, current_sha |-> NoFile, attempt |-> 0,
           run |-> 0, caller |-> "none", prev |-> "none", h0 |-> NoFile]

\* the history of a process that has just been started for the first time:
\* last is the entry queue_entry returned most recently and no flush has
\* taken since, atKill the value of last when the process was killed, atInt
\* the entries handed over when the interrupt handler ran
FirstLife == [last |-> EmptyDict, atKill |-> EmptyDict, atInt |-> EmptyDict,
              kills |-> 0, how |-> "none", first |-> TRUE, reported |-> FALSE,
              restored |-> EmptyDict]

InitManifestLocal ==
    /\ localManifest = [w \in Writers |-> NoFile]
    /\ downloadFile = [w \in Writers |-> NoFile]
    /\ inprogress = [w \in Writers |-> FALSE]
    /\ rs = [w \in Writers |-> IdleRs]
    /\ remoteTmps = {}
    /\ conflictCopies = {}
    /\ handed = [w \in Writers |-> EmptyDict]
    /\ outcome = [w \in Writers |-> "none"]
    /\ queued = [w \in Writers |-> 0]
    /\ faults = 0
    /\ life = [w \in Writers |-> FirstLife]

InitManifest ==
    /\ InitManifestLocal
    /\ canon = NoFile

----------------------------------------------------------------------------
(* ManifestManager: queue, flush and the CAS-style resync                  *)
(*                                                                         *)
(* Every writer is a process with its own tmp_dir and manifest_path; all   *)
(* writers share one remote. The sha256 of a file is modelled by the file  *)
(* itself ([exists, data]); the sha "" of a missing download is NoFile.    *)
(* A temp object is [owner, run, n, data]: uuid4 names never repeat.       *)

\* the remote paths writer w produces entries for
OwnPaths(w) == {w}

\* outcomes of one I/O operation: it may fail while the budget lasts
OutcomesAfter(n) == IF faults + n < MaxFaults THEN BOOLEAN ELSE {TRUE}
Outcomes == OutcomesAfter(0)

Cost(ok) == IF ok THEN 0 ELSE 1

\* a merge in which the remote entries are applied last
Merge_RemoteLast(remote_entries, local_entries, extra) ==
    Update(Update(extra, local_entries), remote_entries)

\* merged = {}; merged.update(remote); merged.update(local); merged.update(extra)
Merge(remote_entries, local_entries, extra) ==
    Update(Update(remote_entries, local_entries), extra)

\* _download_remote_manifest: copy the canonical manifest over
\* tmp_dir/manifest.remote.csv; when the copy fails or there is nothing to
\* copy the file stays as it was
Download(w, ok) == IF ok /\ canon.exists THEN File(canon.data) ELSE downloadFile[w]

\* _write_manifest_dict_atomic: a failing write is logged and swallowed
WriteLocal(w, d, ok) == IF ok THEN File(d) ELSE localManifest[w]

\* a return that leaves the marker where it is
ResyncReturn_KeepMarker(w, how) ==
    /\ rs' = [rs EXCEPT ![w] =
                [IdleRs EXCEPT !.run = rs[w].run,
                               !.pc = IF rs[w].caller = "recover"
                                        THEN "restore" ELSE "idle",
                               !.caller = IF rs[w].caller = "recover"
                                            THEN "recovered" ELSE "none",
                               !.prev = IF rs[w].extra = EmptyDict
                                          THEN "noextra" ELSE "extra"]]
    /\ inprogress' = inprogress
    /\ outcome' = [outcome EXCEPT ![w] = how]

\* a return from upload_manifest_resilient; back in recover_interrupted the
\* caller is noted as "recovered" until restore_queue has run
ResyncReturn(w, how) ==
    /\ rs' = [rs EXCEPT ![w] =
                [IdleRs EXCEPT !.run = rs[w].run,
                               !.pc = IF rs[w].caller = "recover"
                                        THEN "restore" ELSE "idle",
                               !.caller = IF rs[w].caller = "recover"
                                            THEN "recovered" ELSE "none",
                               !.prev = IF rs[w].extra = EmptyDict
                                          THEN "noextra" ELSE "extra"]]
    /\ inprogress' = [inprogress EXCEPT ![w] = FALSE]
    /\ outcome' = [outcome EXCEPT ![w] = how]

\* the pipeline of process w is running (run_pipeline in main): the process
\* is alive and past recover_interrupted and restore_queue
WorkersRun(w) == rs[w].pc \notin {"dead", "restore"} /\ rs[w].caller # "recover"

\* a worker of writer w hands an entry to the manifest
QueueEntry(w) ==
    /\ queued[w] < MaxEntries
    /\ WorkersRun(w)
    /\ \E p \in OwnPaths(w), h \in Hashes, writeOk \in Outcomes :
        /\ queue_entry(w, p, h, writeOk)
        /\ handed' = [handed EXCEPT ![w] = Update(@, Single(p, h))]
        /\ faults' = faults + Cost(writeOk)
        /\ life' = [life EXCEPT ![w].last = Single(p, h)]
    /\ queued' = [queued EXCEPT ![w] = @ + 1]
    /\ UNCHANGED <<localManifest, downloadFile, inprogress, rs, canon,
                   remoteTmps, conflictCopies, outcome, upVars, auVars, exVars>>

\* upload_manifest_if_needed, the part under the lock: snapshot, clear the
\* queue, unlink the dump; then upload_manifest_resilient(snapshot) is entered
FlushIfNeeded(w) ==
    /\ rs[w].pc = "idle"
    /\ manifestQueue[w] # EmptyDict
    /\ rs' = [rs EXCEPT ![w] = [@ EXCEPT !.pc = "start", !.extra = manifestQueue[w],
                                        !.run = @ + 1]]
    /\ manifestQueue' = [manifestQueue EXCEPT ![w] = EmptyDict]
    /\ queueDump' = [queueDump EXCEPT ![w] = NoFile]
    /\ life' = [life EXCEPT ![w].last = EmptyDict, ![w].restored = EmptyDict]
    /\ UNCHANGED <<lk, localManifest, downloadFile, inprogress, canon, remoteTmps,
                   conflictCopies, handed, outcome, queued, faults, upVars, auVars, exVars>>

\* `with self._lock`: the thread enters when nobody holds the lock
lock_free(holder) == holder = NoHolder

\* the path worker thread t uploads to: every row has its own
ThreadPath(t) == t

\* queue_entry by worker t: with self._lock
QAcquire(t) ==
    /\ lk.qpc[t] = "idle"
    /\ lock_free(lk.holder)
    /\ queued[Main] < MaxEntries
    /\ \E h \in Hashes :
        lk' = [lk EXCEPT !.holder = t, !.qpc[t] = "locked",
                         !.qent[t] = Single(ThreadPath(t), h)]
    /\ queued' = [queued EXCEPT ![Main] = @ + 1]
    /\ UNCHANGED <<manifestQueue, queueDump, localManifest, downloadFile,
                   inprogress, rs, canon, remoteTmps, conflictCopies, handed,
                   outcome, faults, life, upVars, auVars, exVars>>

\* self._manifest_queue[remote_path] = sha256_hash
QAdd(t) ==
    /\ lk.qpc[t] = "locked"
    /\ manifestQueue' = [manifestQueue EXCEPT ![Main] = Update(@, lk.qent[t])]
    /\ handed' = [handed EXCEPT ![Main] = Update(@, lk.qent[t])]
    /\ lk' = [lk EXCEPT !.qpc[t] = "added"]
    /\ UNCHANGED <<queueDump, localManifest, downloadFile, inprogress, rs, canon,
                   remoteTmps, conflictCopies, outcome, queued, faults, life,
                   upVars, auVars, exVars>>

\* write_json_atomic(dump, queue), a failure logged and swallowed; the
\* `with` block ends and queue_entry returns
QWrite(t) ==
    /\ lk.qpc[t] = "added"
    /\ \E writeOk \in Outcomes :
        /\ queueDump' = IF writeOk
                          THEN [queueDump EXCEPT ![Main] = File(manifestQueue[Main])]
                          ELSE queueDump
        /\ faults' = faults + Cost(writeOk)
    /\ lk' = [lk EXCEPT !.holder = NoHolder, !.qpc[t] = "idle",
                        !.qent[t] = EmptyDict]
    /\ UNCHANGED <<manifestQueue, localManifest, downloadFile, inprogress, rs,
                   canon, remoteTmps, conflictCopies, handed, outcome, queued,
                   life, upVars, auVars, exVars>>

\* upload_manifest_if_needed: with self._lock; an empty queue is logged and
\* the call returns
FAcquire ==
    /\ lk.fpc = "idle"
    /\ rs[Main].pc = "idle"
    /\ lock_free(lk.holder)
    /\ manifestQueue[Main] # EmptyDict
    /\ lk' = [lk EXCEPT !.holder = Flusher, !.fpc = "locked"]
    /\ UNCHANGED <<manifestQueue, queueDump, manVars, upVars, auVars, exVars>>

\* snapshot = self._manifest_queue.copy()
FSnapshot ==
    /\ lk.fpc = "locked"
    /\ lk' = [lk EXCEPT !.snapshot = manifestQueue[Main], !.fpc = "copied"]
    /\ UNCHANGED <<manifestQueue, queueDump, manVars, upVars, auVars, exVars>>

\* self._manifest_queue.clear()
FClear ==
    /\ lk.fpc = "copied"
    /\ manifestQueue' = [manifestQueue EXCEPT ![Main] = EmptyDict]
    /\ lk' = [lk EXCEPT !.fpc = "cleared"]
    /\ UNCHANGED <<queueDump, manVars, upVars, auVars, exVars>>

\* a `with` block that ends without giving the lock back
lock_kept(holder) == holder

\* the end of a `with self._lock` block
lock_released(holder) == NoHolder

\* self.manifest_queue_dump.unlink(missing_ok=True); the `with` block ends
FUnlink ==
    /\ lk.fpc = "cleared"
    /\ queueDump' = [queueDump EXCEPT ![Main] = NoFile]
    /\ lk' = [lk EXCEPT !.holder = lock_released(lk.holder), !.fpc = "released"]
    /\ UNCHANGED <<manifestQueue, manVars, upVars, auVars, exVars>>

\* self.upload_manifest_resilient(extra_entries=snapshot)
FResync ==
    /\ lk.fpc = "released"
    /\ rs' = [rs EXCEPT ![Main] = [@ EXCEPT !.pc = "start", !.extra = lk.snapshot,
                                           !.run = @ + 1]]
    /\ lk' = [lk EXCEPT !.fpc = "idle", !.snapshot = EmptyDict,
                        !.passed = Update(@, lk.snapshot)]
    /\ UNCHANGED <<manifestQueue, queueDump, localManifest, downloadFile,
                   inprogress, canon, remoteTmps, conflictCopies, handed, outcome,
                   queued, faults, life, upVars, auVars, exVars>>

\* how many times one process calls upload_manifest_resilient
MaxRuns == 3

\* upload_manifest_resilient() called without extra entries, as
\* recover_interrupted calls it
ResyncNoExtra(w) ==
    /\ rs[w].pc = "idle"
    /\ rs[w].run < MaxRuns
    /\ rs' = [rs EXCEPT ![w] = [@ EXCEPT !.pc = "start", !.extra = EmptyDict,
                                        !.run = @ + 1, !.h0 = canon]]
    /\ UNCHANGED <<localManifest, downloadFile, inprogress, canon, remoteTmps,
                   conflictCopies, handed, outcome, queued, faults, qVars, life,
                   upVars, auVars, exVars>>

\* write the in-progress marker, then _cleanup_remote_temp_manifests: every
\* object matching manifest.csv.*.tmp is deleted, whoever uploaded it; a
\* failing listing or delete leaves objects behind
ResyncStart(w) ==
    /\ rs[w].pc = "start"
    /\ inprogress' = [inprogress EXCEPT ![w] = TRUE]
    /\ \E kept \in SUBSET remoteTmps :
        /\ kept # {} => faults < MaxFaults
        /\ remoteTmps' = kept
        /\ faults' = faults + Cost(kept = {})
    /\ rs' = [rs EXCEPT ![w] = [@ EXCEPT !.pc = "merge"]]
    /\ UNCHANGED <<localManifest, downloadFile, canon, conflictCopies, handed,
                   outcome, queued, qVars, life, upVars, auVars, exVars>>

\* download, load the local manifest, merge, write locally; attempt = 0
ResyncMerge(w) ==
    /\ rs[w].pc = "merge"
    /\ \E dlOk \in Outcomes :
        LET dl == Download(w, dlOk)
            local_entries == IF localManifest[w].exists
                               THEN localManifest[w].data ELSE EmptyDict
            merged == Merge(dl.data, local_entries, rs[w].extra)
        IN  \E wrOk \in OutcomesAfter(Cost(dlOk)) :
              /\ downloadFile' = [downloadFile EXCEPT ![w] = dl]
              /\ localManifest' = [localManifest EXCEPT ![w] = WriteLocal(w, merged, wrOk)]
              /\ rs' = [rs EXCEPT ![w] = [@ EXCEPT !.pc = "loop",
                                                  !.local_entries = local_entries,
                                                  !.remote_sha = dl,
                                                  !.attempt = 0]]
              /\ faults' = faults + Cost(dlOk) + Cost(wrOk)
    /\ UNCHANGED <<inprogress, canon, remoteTmps, conflictCopies, handed,
                   outcome, queued, qVars, life, upVars, auVars, exVars>>

\* the temp object of writer w's current attempt
MyTmp(w) == {t \in remoteTmps : t.owner = w /\ t.run = rs[w].run /\ t.n = rs[w].attempt}

\* while attempt < max_retries: attempt += 1; upload the local manifest file
\* to a fresh manifest.csv.<uuid>.tmp. rclone_copyto's result is not looked
\* at: a failed copy (or a missing local file) leaves no temp object
ResyncUploadTemp(w) ==
    /\ rs[w].pc = "loop"
    /\ rs[w].attempt < max_retries
    /\ \E ok \in Outcomes :
        /\ remoteTmps' = IF ok /\ localManifest[w].exists
                           THEN remoteTmps \cup {[owner |-> w, run |-> rs[w].run,
                                                  n |-> rs[w].attempt + 1,
                                                  data |-> localManifest[w].data]}
                           ELSE remoteTmps
        /\ faults' = faults + Cost(ok)
    /\ rs' = [rs EXCEPT ![w] = [@ EXCEPT !.pc = "recheck", !.attempt = @ + 1]]
    /\ UNCHANGED <<localManifest, downloadFile, inprogress, canon, conflictCopies,
                   handed, outcome, queued, qVars, life, upVars, auVars, exVars>>

cas_always(current_sha, remote_sha) == TRUE

\* if current_sha == remote_sha
cas_ok(current_sha, remote_sha) == current_sha = remote_sha

\* re-check remote: download again and compare with the baseline; on a
\* difference re-merge against the new remote, write locally and loop
ResyncRecheck(w) ==
    /\ rs[w].pc = "recheck"
    /\ \E dlOk \in Outcomes :
        LET dl == Download(w, dlOk)
            merged == Merge(dl.data, rs[w].local_entries, rs[w].extra)
        IN  /\ downloadFile' = [downloadFile EXCEPT ![w] = dl]
            /\ IF cas_ok(dl, rs[w].remote_sha)
                 THEN /\ rs' = [rs EXCEPT ![w] = [@ EXCEPT !.pc = "move",
                                                          !.current_sha = dl]]
                      /\ faults' = faults + Cost(dlOk)
                      /\ UNCHANGED localManifest
                 ELSE \E wrOk \in OutcomesAfter(Cost(dlOk)) :
                      /\ localManifest' = [localManifest EXCEPT
                                             ![w] = WriteLocal(w, merged, wrOk)]
                      /\ rs' = [rs EXCEPT ![w] = [@ EXCEPT !.pc = "loop",
                                                          !.remote_sha = dl]]
                      /\ faults' = faults + Cost(dlOk) + Cost(wrOk)
    /\ UNCHANGED <<inprogress, canon, remoteTmps, conflictCopies, handed,
                   outcome, queued, qVars, life, upVars, auVars, exVars>>

\* move into place: rclone_moveto(temp, manifest_remote_path); its result is
\* not looked at, "Remote manifest updated atomically." is logged and the
\* call returns; finally: unlink the marker
ResyncMove(w) ==
    /\ rs[w].pc = "move"
    /\ \E ok \in Outcomes :
        /\ IF ok /\ MyTmp(w) # {}
             THEN /\ canon' = File((CHOOSE t \in MyTmp(w) : TRUE).data)
                  /\ remoteTmps' = remoteTmps \ MyTmp(w)
             ELSE UNCHANGED <<canon, remoteTmps>>
        /\ faults' = faults + Cost(ok)
    /\ ResyncReturn(w, "moved")
    /\ UNCHANGED <<localManifest, downloadFile, conflictCopies, handed, queued,
                   qVars, life, upVars, auVars, exVars>>

\* retries exhausted: copy the local manifest to manifest.conflict.<uuid>.csv
\* (check=False), log the error and return; finally: unlink the marker
ResyncConflict(w) ==
    /\ rs[w].pc = "loop"
    /\ rs[w].attempt >= max_retries
    /\ \E ok \in Outcomes :
        /\ conflictCopies' = IF ok /\ localManifest[w].exists
                               THEN conflictCopies \cup {[owner |-> w, run |-> rs[w].run,
                                                          data |-> localManifest[w].data]}
                               ELSE conflictCopies
        /\ faults' = faults + Cost(ok)
    /\ ResyncReturn(w, "conflict")
    /\ UNCHANGED <<localManifest, downloadFile, canon, remoteTmps, handed, queued,
                   qVars, life, upVars, auVars, exVars>>

----------------------------------------------------------------------------
(* The life of one process: the interrupt handler of main, its finally     *)
(* clause, a hard kill, and the start-up calls recover_interrupted and     *)
(* restore_queue. rs[w].pc = "dead" is a process that is not running,      *)
(* "exiting" one whose handler has called sys.exit, "restore" one that is  *)
(* about to call restore_queue. Files under tmp_dir outlive the process,   *)
(* the queue in memory and the locals of a running resync do not.          *)

\* how many times a process is killed
MaxKills == 1

\* dump_queue: nothing to do for an empty queue; a failing write is logged
dump_queue(w, writeOk) ==
    /\ queueDump' = IF manifestQueue[w] # EmptyDict /\ writeOk
                      THEN [queueDump EXCEPT ![w] = File(manifestQueue[w])]
                      ELSE queueDump
    /\ UNCHANGED lk

\* on_interrupt up to sys.exit(1): interrupt_all() with no pool registered,
\* then dump_queue(); SystemExit unwinds a running
\* upload_manifest_resilient through its finally, which unlinks the marker
OnInterrupt(w) ==
    /\ WorkersRun(w)
    /\ rs[w].pc # "exiting"
    /\ registered = {}
    /\ globalFlag' = TRUE
    /\ \E writeOk \in BOOLEAN : dump_queue(w, writeOk)
    /\ inprogress' = [inprogress EXCEPT ![w] = FALSE]
    /\ rs' = [rs EXCEPT ![w] = [IdleRs EXCEPT !.run = rs[w].run, !.pc = "exiting"]]
    /\ life' = [life EXCEPT ![w].atInt = handed[w]]
    /\ UNCHANGED <<manifestQueue, localManifest, downloadFile, canon, remoteTmps,
                   conflictCopies, handed, outcome, queued, faults, upVars, auVars,
                   registered, localFlag, executor, phase, task, m, ipc, gpc>>

\* the finally clause of main while SystemExit propagates: dump_queue()
\* again, then the process is gone
ExitFinally(w) ==
    /\ rs[w].pc = "exiting"
    /\ \E writeOk \in BOOLEAN : dump_queue(w, writeOk)
    /\ manifestQueue' = [manifestQueue EXCEPT ![w] = EmptyDict]
    /\ rs' = [rs EXCEPT ![w].pc = "dead"]
    /\ life' = [life EXCEPT ![w].how = "interrupted", ![w].last = EmptyDict,
                            ![w].restored = EmptyDict]
    /\ UNCHANGED <<localManifest, downloadFile, inprogress, canon, remoteTmps,
                   conflictCopies, handed, outcome, queued, faults, upVars, auVars, exVars>>

\* main after run_pipeline returned: the finally clause (dump_queue,
\* status_thread.stop()), then the elapsed time and log_status(stats)
MainCompletes(w) ==
    /\ WorkersRun(w)
    /\ rs[w].pc = "idle"
    /\ \E writeOk \in BOOLEAN : dump_queue(w, writeOk)
    /\ manifestQueue' = [manifestQueue EXCEPT ![w] = EmptyDict]
    /\ rs' = [rs EXCEPT ![w].pc = "dead"]
    /\ life' = [life EXCEPT ![w].how = "completed", ![w].last = EmptyDict,
                            ![w].reported = TRUE, ![w].restored = EmptyDict]
    /\ UNCHANGED <<localManifest, downloadFile, inprogress, canon, remoteTmps,
                   conflictCopies, handed, outcome, queued, faults, upVars, auVars, exVars>>

\* SIGKILL or power loss: no handler and no finally runs
Kill(w) ==
    /\ rs[w].pc # "dead"
    /\ life[w].kills < MaxKills
    /\ manifestQueue' = [manifestQueue EXCEPT ![w] = EmptyDict]
    /\ rs' = [rs EXCEPT ![w] = [IdleRs EXCEPT !.run = rs[w].run, !.pc = "dead"]]
    /\ life' = [life EXCEPT ![w].atKill = life[w].last, ![w].last = EmptyDict,
                            ![w].kills = @ + 1, ![w].how = "killed",
                            ![w].restored = EmptyDict]
    /\ UNCHANGED <<queueDump, lk, localManifest, downloadFile, inprogress, canon,
                   remoteTmps, conflictCopies, handed, outcome, queued, faults,
                   upVars, auVars, exVars>>

\* the next start of the process, recover_interrupted: with a marker left
\* behind, unlink it and run upload_manifest_resilient() without entries
RecoverInterrupted(w) ==
    /\ rs[w].pc = "dead"
    /\ IF inprogress[w]
         THEN rs' = [rs EXCEPT ![w] = [IdleRs EXCEPT !.pc = "start",
                                                     !.run = rs[w].run + 1,
                                                     !.caller = "recover"]]
         ELSE rs' = [rs EXCEPT ![w].pc = "restore"]
    /\ inprogress' = [inprogress EXCEPT ![w] = FALSE]
    /\ life' = [life EXCEPT ![w].first = FALSE, ![w].reported = FALSE]
    /\ UNCHANGED <<localManifest, downloadFile, canon, remoteTmps, conflictCopies,
                   handed, outcome, queued, faults, qVars, upVars, auVars, exVars>>

\* restore_queue: update the queue from the dump and unlink the dump; a dump
\* that cannot be read is logged and left where it is
RestoreQueue(w) ==
    /\ rs[w].pc = "restore"
    /\ \E readOk \in BOOLEAN :
        IF queueDump[w].exists /\ readOk
          THEN /\ manifestQueue' = [manifestQueue EXCEPT
                                      ![w] = Update(@, queueDump[w].data)]
               /\ queueDump' = [queueDump EXCEPT ![w] = NoFile]
               /\ life' = [life EXCEPT ![w].atKill = EmptyDict,
                                       ![w].restored = queueDump[w].data]
          ELSE /\ UNCHANGED <<manifestQueue, queueDump>>
               /\ life' = [life EXCEPT ![w].atKill = EmptyDict]
    /\ rs' = [rs EXCEPT ![w].pc = "idle", ![w].caller = "none"]
    /\ UNCHANGED <<lk, localManifest, downloadFile, inprogress, canon, remoteTmps,
                   conflictCopies, handed, outcome, queued, faults, upVars, auVars, exVars>>

----------------------------------------------------------------------------
(* State of the executor part after the pools are constructed *)

\* the locals of map when no call is running
IdleMap == [pc |-> "idle", hasCallback |-> TRUE, i |-> 1, collected |-> {},
            results |-> {}, outcome |-> "none", intrBy |-> "none",
            stage |-> "none"]

\* called: the registry when interrupt_all was entered;
\* snap: executors_to_interrupt
IdleGpc == [pc |-> "idle", todo |-> {}, cur |-> 0, called |-> {}, snap |-> {}]

InitExec ==
    /\ globalFlag = FALSE
    /\ registered = {}
    /\ localFlag = [k \in AllPools |-> FALSE]
    /\ executor = [k \in AllPools |-> FALSE]
    /\ phase = [k \in AllPools |-> "new"]
    /\ task = [k \in AllPools |-> [i \in Items |-> "unsubmitted"]]
    /\ m = [k \in AllPools |-> IdleMap]
    /\ ipc = [k \in AllPools |-> "idle"]
    /\ gpc = IdleGpc

----------------------------------------------------------------------------
(* ManagedThreadPoolExecutor and GlobalInterruptManager                    *)
(*                                                                         *)
(* The thread owning pool k enters the `with` block, calls map once and    *)
(* leaves; the worker threads of the pool run the submitted futures; other *)
(* threads set the flag, call interrupt() or call interrupt_all().         *)

\* a check that looks at the global flag only
Interrupted_GlobalOnly(k) == globalFlag

\* self.interrupt_flag.is_set() or _global_interrupt_manager.is_interrupted()
Interrupted(k) == localFlag[k] \/ globalFlag

Submitted(k) == {i \in Items : task[k][i] # "unsubmitted"}
DoneStates == {"ok", "failed", "interrupted", "cancelled", "kbd"}
Done(k) == {i \in Items : task[k][i] \in DoneStates}
Running(k) == {i \in Items : task[k][i] = "running"}

\* a map call on pool k is in progress with results outstanding
Outstanding(k) ==
    /\ m[k].pc \in {"loopcheck", "submit", "enqueue", "collect"}
    /\ Submitted(k) \ m[k].collected # {}

\* history: which kind of interrupt first reached a map call in progress
NoteInterrupt(mm, ks, by) ==
    [k \in AllPools |-> IF k \in ks /\ Outstanding(k) /\ mm[k].intrBy = "none"
                       THEN [mm[k] EXCEPT !.intrBy = by] ELSE mm[k]]

\* map leaves by returning or by raising `how`
MapEnds(k, how) == [m[k] EXCEPT !.pc = "done", !.outcome = how]

\* __enter__: create the ThreadPoolExecutor and register the pool
Enter(k) ==
    /\ phase[k] = "new"
    /\ executor' = [executor EXCEPT ![k] = TRUE]
    /\ registered' = registered \cup {k}
    /\ phase' = [phase EXCEPT ![k] = "in"]
    /\ UNCHANGED <<globalFlag, localFlag, task, m, ipc, gpc, upVars, auVars, qVars, manVars>>

\* map, up to the submission loop: RuntimeError when the pool has no
\* executor; `items` is never empty here
MapCall(k) ==
    /\ phase[k] = "in"
    /\ m[k].pc = "idle"
    /\ \E cb \in BOOLEAN :
        m' = [m EXCEPT ![k] = IF executor[k]
                                THEN [@ EXCEPT !.pc = "loopcheck", !.hasCallback = cb]
                                ELSE [MapEnds(k, "RuntimeError") EXCEPT !.hasCallback = cb]]
    /\ UNCHANGED <<globalFlag, registered, localFlag, executor, phase, task, ipc,
                   gpc, upVars, auVars, qVars, manVars>>

\* for item in items_list: if interrupted: break
MapLoopCheck(k) ==
    /\ m[k].pc = "loopcheck"
    /\ m' = [m EXCEPT ![k] = IF m[k].i > NumItems \/ Interrupted(k)
                               THEN [@ EXCEPT !.pc = "collect"]
                               ELSE [@ EXCEPT !.pc = "submit"]]
    /\ UNCHANGED <<globalFlag, registered, localFlag, executor, phase, task, ipc,
                   gpc, upVars, auVars, qVars, manVars>>

\* submit, its two checks: RuntimeError without an executor,
\* InterruptedError when a flag is set
MapSubmitCheck(k) ==
    /\ m[k].pc = "submit"
    /\ m' = [m EXCEPT ![k] = IF ~executor[k] THEN MapEnds(k, "RuntimeError")
                               ELSE IF Interrupted(k) THEN MapEnds(k, "InterruptedError")
                               ELSE [@ EXCEPT !.pc = "enqueue"]]
    /\ UNCHANGED <<globalFlag, registered, localFlag, executor, phase, task, ipc,
                   gpc, upVars, auVars, qVars, manVars>>

\* submit, future = self._executor.submit(wrapped): fails with
\* AttributeError when shutdown has set _executor to None meanwhile
MapSubmitEnqueue(k) ==
    /\ m[k].pc = "enqueue"
    /\ IF executor[k]
         THEN /\ task' = [task EXCEPT ![k][m[k].i] = "pending"]
              /\ m' = [m EXCEPT ![k] = [@ EXCEPT !.pc = "loopcheck", !.i = @ + 1]]
         ELSE /\ m' = [m EXCEPT ![k] = MapEnds(k, "AttributeError")]
              /\ UNCHANGED task
    /\ UNCHANGED <<globalFlag, registered, localFlag, executor, phase, ipc, gpc,
                   upVars, auVars, qVars, manVars>>

\* a worker thread takes the oldest queued future and runs wrapped(): with a
\* flag set it raises InterruptedError, else it calls fn(item)
TaskStart(k) ==
    /\ Cardinality(Running(k)) < max_workers
    /\ \E i \in Items :
        /\ task[k][i] = "pending"
        /\ \A j \in Items : task[k][j] = "pending" => i <= j
        /\ task' = [task EXCEPT ![k][i] = IF Interrupted(k) THEN "interrupted"
                                                             ELSE "running"]
    /\ UNCHANGED <<globalFlag, registered, localFlag, executor, phase, m, ipc, gpc,
                   upVars, auVars, qVars, manVars>>

\* fn(item) returns, raises an Exception, or raises KeyboardInterrupt (run_cmd
\* does when its child process was killed by a signal)
TaskFinish(k) ==
    /\ \E i \in Running(k), how \in {"ok", "failed", "kbd"} :
        task' = [task EXCEPT ![k][i] = how]
    /\ UNCHANGED <<globalFlag, registered, localFlag, executor, phase, m, ipc, gpc,
                   upVars, auVars, qVars, manVars>>

\* the collection loop ends because as_completed has nothing more to yield
MapReturn(k) ==
    /\ m[k].pc = "collect"
    /\ Submitted(k) \ m[k].collected = {}
    /\ m' = [m EXCEPT ![k] = MapEnds(k, "returned")]
    /\ UNCHANGED <<globalFlag, registered, localFlag, executor, phase, task, ipc,
                   gpc, upVars, auVars, qVars, manVars>>

\* as_completed yields a finished future: break when a flag is set; else
\* wrap future.result() in a TaskResult, append it and call
\* increment_callback (None is not callable). A KeyboardInterrupt out of
\* future.result() sets the pool's flag and is re-raised
MapCollect(k) ==
    /\ m[k].pc = "collect"
    /\ \E i \in (Done(k) \ m[k].collected) :
        IF Interrupted(k)
          THEN /\ m' = [m EXCEPT ![k] = MapEnds(k, "returned")]
               /\ UNCHANGED localFlag
          ELSE IF task[k][i] = "kbd"
          THEN /\ m' = [m EXCEPT ![k] = MapEnds(k, "KeyboardInterrupt")]
               /\ localFlag' = [localFlag EXCEPT ![k] = TRUE]
          ELSE LET mm == [m[k] EXCEPT
                            !.collected = @ \cup {i},
                            !.results = @ \cup {[item |-> i,
                                                 success |-> task[k][i] = "ok"]}]
               IN  /\ m' = [m EXCEPT ![k] = IF mm.hasCallback THEN mm
                                              ELSE [mm EXCEPT !.pc = "done",
                                                              !.outcome = "TypeError"]]
                   /\ UNCHANGED localFlag
    /\ UNCHANGED <<globalFlag, registered, executor, phase, task, ipc, gpc,
                   upVars, auVars, qVars, manVars>>

\* shutdown(wait=False, cancel_futures=True): nothing without an executor;
\* else cancel every future that has not started and drop the executor
CancelPending(k) ==
    [task EXCEPT ![k] = [i \in Items |-> IF task[k][i] = "pending" THEN "cancelled"
                                                                    ELSE task[k][i]]]

\* a thread sets the pool's flag directly: executor.interrupt_flag.set()
FlagSet(k) ==
    /\ ~localFlag[k]
    /\ phase[k] = "in"
    /\ localFlag' = [localFlag EXCEPT ![k] = TRUE]
    /\ m' = NoteInterrupt(m, {k}, "flag")
    /\ UNCHANGED <<globalFlag, registered, executor, phase, task, ipc, gpc,
                   upVars, auVars, qVars, manVars>>

\* interrupt(), first statement: self.interrupt_flag.set()
InterruptSetFlag(k) ==
    /\ ipc[k] = "idle"
    /\ phase[k] = "in"
    /\ localFlag' = [localFlag EXCEPT ![k] = TRUE]
    /\ m' = NoteInterrupt(m, {k}, "interrupt")
    /\ ipc' = [ipc EXCEPT ![k] = "shutdown"]
    /\ UNCHANGED <<globalFlag, registered, executor, phase, task, gpc,
                   upVars, auVars, qVars, manVars>>

\* interrupt(), second statement: self.shutdown(wait=False, cancel_futures=True)
InterruptShutdown(k) ==
    /\ ipc[k] = "shutdown"
    /\ task' = IF executor[k] THEN CancelPending(k) ELSE task
    /\ executor' = [executor EXCEPT ![k] = FALSE]
    /\ ipc' = [ipc EXCEPT ![k] = "done"]
    /\ UNCHANGED <<globalFlag, registered, localFlag, phase, m, gpc,
                   upVars, auVars, qVars, manVars>>

\* executor.interrupt(), as interrupt_all calls it: the pool's flag stays as
\* it was
interrupt_flag_kept(lf, k) == lf

\* executor.interrupt(), first statement: self.interrupt_flag.set()
interrupt_flag_set(lf, k) == [lf EXCEPT ![k] = TRUE]

\* interrupt_all: self._global_flag.set()
InterruptAllSetFlag ==
    /\ gpc.pc = "idle"
    /\ globalFlag' = TRUE
    /\ m' = NoteInterrupt(m, AllPools, "all")
    /\ gpc' = [gpc EXCEPT !.pc = "snapshot", !.called = registered]
    /\ UNCHANGED <<registered, localFlag, executor, phase, task, ipc,
                   upVars, auVars, qVars, manVars>>

\* interrupt_all: executors_to_interrupt = list(self._executors)
InterruptAllSnapshot ==
    /\ gpc.pc = "snapshot"
    /\ gpc' = [gpc EXCEPT !.pc = "iterate", !.todo = registered, !.snap = registered]
    /\ UNCHANGED <<globalFlag, registered, localFlag, executor, phase, task, m,
                   ipc, upVars, auVars, qVars, manVars>>

\* interrupt_all: for executor in executors_to_interrupt: executor.interrupt()
\* (the flag, then the shutdown)
InterruptAllNext ==
    /\ gpc.pc = "iterate"
    /\ IF gpc.todo = {}
         THEN /\ gpc' = [gpc EXCEPT !.pc = "done"]
              /\ UNCHANGED <<localFlag, m>>
         ELSE \E k \in gpc.todo :
              /\ localFlag' = interrupt_flag_set(localFlag, k)
              /\ m' = NoteInterrupt(m, {k}, "all")
              /\ gpc' = [gpc EXCEPT !.pc = "shutdown", !.cur = k]
    /\ UNCHANGED <<globalFlag, registered, executor, phase, task, ipc,
                   upVars, auVars, qVars, manVars>>

InterruptAllShutdown ==
    /\ gpc.pc = "shutdown"
    /\ task' = IF executor[gpc.cur] THEN CancelPending(gpc.cur) ELSE task
    /\ executor' = [executor EXCEPT ![gpc.cur] = FALSE]
    /\ gpc' = [gpc EXCEPT !.pc = "iterate", !.todo = @ \ {gpc.cur}, !.cur = 0]
    /\ UNCHANGED <<globalFlag, registered, localFlag, phase, m, ipc,
                   upVars, auVars, qVars, manVars>>

\* get_executor_count: len(self._executors)
get_executor_count == Cardinality(registered)

\* the pools inside their `with` block
InScope == {k \in AllPools : phase[k] = "in"}

\* __exit__ that leaves an interrupted pool in the registry
unregister_unless_interrupted(k) ==
    IF Interrupted(k) THEN registered ELSE registered \ {k}

\* unregister_executor: if executor in self._executors: remove it
unregister_executor(k) == registered \ {k}

\* __exit__, after map returned or raised: unregister, then
\* shutdown(wait=True): returns at once without an executor, else cancels
\* the futures that have not started and joins the workers
Exit(k) ==
    /\ phase[k] = "in"
    /\ m[k].pc \in {"idle", "done"}
    /\ registered' = unregister_executor(k)
    /\ IF executor[k]
         THEN /\ task' = CancelPending(k)
              /\ phase' = [phase EXCEPT ![k] = "closing"]
         ELSE /\ phase' = [phase EXCEPT ![k] = "exited"]
              /\ UNCHANGED task
    /\ UNCHANGED <<globalFlag, localFlag, executor, m, ipc, gpc,
                   upVars, auVars, qVars, manVars>>

\* shutdown(wait=True) returns when no worker is running fn; finally:
\* self._executor = None
ExitJoin(k) ==
    /\ phase[k] = "closing"
    /\ Running(k) = {}
    /\ executor' = [executor EXCEPT ![k] = FALSE]
    /\ phase' = [phase EXCEPT ![k] = "exited"]
    /\ UNCHANGED <<globalFlag, registered, localFlag, task, m, ipc, gpc,
                   upVars, auVars, qVars, manVars>>

----------------------------------------------------------------------------
(* upload_email / repair_remote *)


InitCall(ctx, emailLocal) ==
    [ctx |-> ctx, emailLocal |-> emailLocal, attempt |-> 1,
     emailUploaded |-> FALSE, success |-> TRUE,
     xTarget |-> "email", xPre |-> Absent, xRet |-> FALSE, xFail |-> "none",
     publishCalls |-> 0, deleteCalls |-> 0, verifyFails |-> 0, ret |-> "none",
     prePath |-> NoPath, preEntry |-> "none"]

IdleCall == InitCall("none", FALSE)

Dest(r, target) == IF target = "email" THEN remoteEmail[r] ELSE remoteAux[r]

\* the locals of atomic_upload_file go out of scope once its caller has
\* looked at the return value
ClearXfer(c) == [c EXCEPT !.xTarget = "email", !.xPre = Absent, !.xRet = FALSE,
                          !.xFail = "none"]

\* the locals of a call that returned `ret`
Returned(c, ret) == [IdleCall EXCEPT !.ctx = c.ctx, !.ret = ret]

\* entering atomic_upload_file(local, remote_final) for `target`
BeginXfer(c, r, target) ==
    [c EXCEPT !.xTarget = target, !.xPre = Dest(r, target), !.xRet = FALSE,
              !.xFail = "none",
              !.publishCalls = IF target = "email" THEN @ + 1 ELSE @]

ContinueLoop_OffByOne(r, c) ==
    IF c.attempt <= max_attempts
      THEN /\ call' = [call EXCEPT ![r] = [c EXCEPT !.attempt = @ + 1]]
           /\ pc' = [pc EXCEPT ![r] = "attempt"]
      ELSE /\ call' = [call EXCEPT ![r] = c]
           /\ pc' = [pc EXCEPT ![r] = "postloop"]

\* `continue` / falling off the end of the body of the attempt loop
\* (for attempt in range(1, max_attempts + 1))
ContinueLoop(r, c) ==
    IF c.attempt < max_attempts
      THEN /\ call' = [call EXCEPT ![r] = [c EXCEPT !.attempt = @ + 1]]
           /\ pc' = [pc EXCEPT ![r] = "attempt"]
      ELSE /\ call' = [call EXCEPT ![r] = c]
           /\ pc' = [pc EXCEPT ![r] = "postloop"]

\* incremental_upload hands every unsynced row to upload_email
StartUpload(r) ==
    /\ pc[r] \in {"idle", "done"}
    /\ ~db[r].synced
    /\ call' = [call EXCEPT ![r] = InitCall("upload", localExists[r])]
    /\ pc' = [pc EXCEPT ![r] = "attempt"]
    /\ UNCHANGED <<db, localExists, hashsumSupported, remoteEmail, remoteAux,
                   tmpObj, verifiedPublish, qVars, nonUpVars>>

\* top of one attempt: publish when email.eml is in the docset, else
\* "no local email file: treat as uploaded"
UploadAttempt(r) ==
    /\ pc[r] = "attempt"
    /\ IF call[r].emailLocal
         THEN /\ call' = [call EXCEPT ![r] = BeginXfer(@, r, "email")]
              /\ pc' = [pc EXCEPT ![r] = "copy"]
         ELSE /\ call' = [call EXCEPT ![r].emailUploaded = TRUE]
              /\ pc' = [pc EXCEPT ![r] = "postloop"]
    /\ UNCHANGED <<db, localExists, hashsumSupported, remoteEmail, remoteAux,
                   tmpObj, verifiedPublish, qVars, nonUpVars>>

\* a publish that copies straight onto the final name
AtomicCopy_Direct(r) ==
    /\ pc[r] = "copy"
    /\ \E ok \in BOOLEAN, c \in Hashes :
         /\ IF call[r].xTarget = "email"
              THEN /\ remoteEmail' = [remoteEmail EXCEPT ![r] = IF ok THEN c ELSE BadHash]
                   /\ UNCHANGED remoteAux
              ELSE /\ remoteAux' = [remoteAux EXCEPT ![r] = IF ok THEN c ELSE BadHash]
                   /\ UNCHANGED remoteEmail
         /\ call' = [call EXCEPT ![r].xRet = ok,
                                 ![r].xFail = IF ok THEN "none" ELSE "copy"]
    /\ pc' = [pc EXCEPT ![r] = "xret"]
    /\ UNCHANGED <<db, localExists, hashsumSupported, tmpObj, verifiedPublish, qVars, nonUpVars>>

\* atomic_upload_file, first half: copyto "<final>.tmp.<uuid>"; on failure a
\* best-effort deletefile of the temp object and return False. A copy that
\* reports success may still have stored garbled bytes. A temp object that
\* the best-effort delete leaves behind keeps its unique name and is never
\* read again, so the model drops it.
AtomicCopy(r) ==
    /\ pc[r] = "copy"
    /\ \/ \E c \in Hashes :
            /\ tmpObj' = [tmpObj EXCEPT ![r] = c]
            /\ pc' = [pc EXCEPT ![r] = "move"]
            /\ UNCHANGED call
       \/ /\ call' = [call EXCEPT ![r].xRet = FALSE, ![r].xFail = "copy"]
          /\ pc' = [pc EXCEPT ![r] = "xret"]
          /\ UNCHANGED tmpObj
    /\ UNCHANGED <<db, localExists, hashsumSupported, remoteEmail, remoteAux,
                   verifiedPublish, qVars, nonUpVars>>

\* atomic_upload_file, second half: moveto temp -> final (the remote's atomic
\* rename); on failure a best-effort deletefile of the temp and return False.
AtomicMove(r) ==
    /\ pc[r] = "move"
    /\ \/ /\ IF call[r].xTarget = "email"
               THEN /\ remoteEmail' = [remoteEmail EXCEPT ![r] = tmpObj[r]]
                    /\ verifiedPublish' =
                          [verifiedPublish EXCEPT
                             ![r] = IF db[r].remote_path = StalePath(r) THEN @
                                                                        ELSE FALSE]
                    /\ UNCHANGED remoteAux
               ELSE /\ remoteAux' = [remoteAux EXCEPT ![r] = tmpObj[r]]
                    /\ UNCHANGED <<remoteEmail, verifiedPublish>>
          /\ call' = [call EXCEPT ![r].xRet = TRUE]
       \/ /\ call' = [call EXCEPT ![r].xRet = FALSE, ![r].xFail = "move"]
          /\ UNCHANGED <<remoteEmail, remoteAux, verifiedPublish>>
    /\ tmpObj' = [tmpObj EXCEPT ![r] = Absent]
    /\ pc' = [pc EXCEPT ![r] = "xret"]
    /\ UNCHANGED <<db, localExists, hashsumSupported, qVars, nonUpVars>>

\* upload_email after atomic_upload_file(email_local, remote_email) returned
UploadAfterPublish(r) ==
    /\ pc[r] = "xret" /\ call[r].ctx = "upload" /\ call[r].xTarget = "email"
    /\ IF call[r].xRet
         THEN /\ pc' = [pc EXCEPT ![r] = "verify"]
              /\ call' = [call EXCEPT ![r] = ClearXfer(@)]
         ELSE ContinueLoop(r, ClearXfer(call[r]))
    /\ UNCHANGED <<db, localExists, hashsumSupported, remoteEmail, remoteAux,
                   tmpObj, verifiedPublish, qVars, nonUpVars>>

\* remote_hash(settings, remote_path=remote_base) followed by the lookup of
\* email_key = "/<year>/<folder>/email.eml" in upload_email.
\*   hashsum answers: the map is keyed relative to remote_base ("email.eml"),
\*     so the lookup of email_key misses (KeyError);
\*   else lsjson fails: remote_hash returns None;
\*   else the streaming fallback calls create_managed_executor(...,
\*     silent=True), a keyword that function does not take: TypeError is
\*     raised out of remote_hash and out of upload_email.
remote_hash_lookup(content, hsOk, lsOk) ==
    IF hsOk /\ content # Absent THEN "KeyError"
    ELSE IF ~lsOk THEN "None"
    ELSE "TypeError"

\* `remote_map is None` / `remote_map.get(email_key) != hash_email` / else
verification_ok(got) == got = GoodHash

\* verification of the published email and, when it does not match, the
\* best-effort delete of the remote object
UploadVerify(r) ==
    /\ pc[r] = "verify"
    /\ \E hsOk \in (IF hashsumSupported THEN BOOLEAN ELSE {FALSE}),
          lsOk \in BOOLEAN, delOk \in BOOLEAN :
         LET got == remote_hash_lookup(remoteEmail[r], hsOk, lsOk) IN
         IF got = "TypeError"
           THEN /\ call' = [call EXCEPT ![r] = Returned(@, "raised")]
                /\ pc' = [pc EXCEPT ![r] = "done"]
                /\ UNCHANGED <<remoteEmail, verifiedPublish>>
           ELSE IF verification_ok(got)
           THEN /\ call' = [call EXCEPT ![r].emailUploaded = TRUE]
                /\ pc' = [pc EXCEPT ![r] = "postloop"]
                /\ verifiedPublish' = [verifiedPublish EXCEPT ![r] = TRUE]
                /\ UNCHANGED remoteEmail
           ELSE /\ remoteEmail' = IF delOk THEN [remoteEmail EXCEPT ![r] = Absent]
                                           ELSE remoteEmail
                /\ ContinueLoop(r, [call[r] EXCEPT !.verifyFails = @ + 1,
                                                   !.deleteCalls = @ + 1])
                /\ UNCHANGED verifiedPublish
    /\ UNCHANGED <<db, localExists, hashsumSupported, remoteAux, tmpObj, qVars, nonUpVars>>

\* after the loop: give up, or go on to attachments and info.json
UploadPostLoop(r) ==
    /\ pc[r] = "postloop"
    /\ IF call[r].emailUploaded
         THEN /\ call' = [call EXCEPT ![r] = BeginXfer(@, r, "aux")]
              /\ pc' = [pc EXCEPT ![r] = "copy"]
         ELSE /\ call' = [call EXCEPT ![r] = Returned(@, "false")]
              /\ pc' = [pc EXCEPT ![r] = "done"]
    /\ UNCHANGED <<db, localExists, hashsumSupported, remoteEmail, remoteAux,
                   tmpObj, verifiedPublish, qVars, nonUpVars>>

\* info.json (and attachments) are best effort: a failure is only logged
UploadAfterAux(r) ==
    /\ pc[r] = "xret" /\ call[r].ctx = "upload" /\ call[r].xTarget = "aux"
    /\ call' = [call EXCEPT ![r] = ClearXfer(@)]
    /\ pc' = [pc EXCEPT ![r] = "mark"]
    /\ UNCHANGED <<db, localExists, hashsumSupported, remoteEmail, remoteAux,
                   tmpObj, verifiedPublish, qVars, nonUpVars>>

\* db.mark_synced(db_path, hash_, hash_email, "<year>/<folder>/email.eml")
UploadMark(r) ==
    /\ pc[r] = "mark"
    /\ db' = [db EXCEPT ![r] = [synced |-> TRUE, hash_sha256 |-> GoodHash,
                                remote_path |-> PathOf(r)]]
    /\ pc' = [pc EXCEPT ![r] = "queue"]
    /\ UNCHANGED <<localExists, hashsumSupported, remoteEmail, remoteAux,
                   tmpObj, call, verifiedPublish, qVars, nonUpVars>>

\* manifest.queue_entry("<year>/<folder>/email.eml", hash_email); return True
UploadQueue(r) ==
    /\ pc[r] = "queue"
    /\ \E writeOk \in BOOLEAN : queue_entry(Main, PathOf(r), GoodHash, writeOk)
    /\ call' = [call EXCEPT ![r] = Returned(@, "true")]
    /\ pc' = [pc EXCEPT ![r] = "done"]
    /\ UNCHANGED <<db, localExists, hashsumSupported, remoteEmail, remoteAux,
                   tmpObj, verifiedPublish, nonUpVars>>

\* how many repairs one run counts
MaxRepairs == 2

\* the run's stats dict before any stage has counted anything
InitStats == [repaired |-> 0, verified |-> 0]

\* the entry queued for the row's derived path, "none" without one
QueuedFor(r) ==
    IF PathOf(r) \in DOMAIN manifestQueue[Main]
      THEN manifestQueue[Main][PathOf(r)] ELSE "none"

\* repair_remote up to its first atomic_upload_file: the new path is derived
\* from the row's headers and the docset rebuilt; rebuild_docset copies
\* email.eml only when the source file still exists. prePath and preEntry
\* remember the row and the queue as the call found them
repair_remote_begin(r) ==
    /\ LET c == [InitCall("repair", localExists[r]) EXCEPT
                    !.prePath = db[r].remote_path, !.preEntry = QueuedFor(r)] IN
         call' = [call EXCEPT ![r] =
                    BeginXfer(c, r, IF c.emailLocal THEN "email" ELSE "aux")]
    /\ pc' = [pc EXCEPT ![r] = "copy"]

\* a repair_remote that updates the catalog whatever the uploads returned
repair_always(c) == TRUE

\* the `if success:` of repair_remote
repair_succeeded(c) == c.success

\* integrity_check calls repair_remote for a synced row with a remote_path
\* that it classified missing or mismatched
StartRepair(r) ==
    /\ pc[r] \in {"idle", "done"}
    /\ db[r].synced /\ db[r].remote_path # NoPath
    /\ stats.repaired < MaxRepairs
    /\ repair_remote_begin(r)
    /\ UNCHANGED <<db, localExists, hashsumSupported, remoteEmail, remoteAux,
                   tmpObj, verifiedPublish, qVars, nonUpVars>>

\* repair_remote after atomic_upload_file(ds / "email.eml", ...) returned
RepairAfterEmail(r) ==
    /\ pc[r] = "xret" /\ call[r].ctx = "repair" /\ call[r].xTarget = "email"
    /\ call' = [call EXCEPT ![r] =
                  BeginXfer([@ EXCEPT !.success = call[r].xRet], r, "aux")]
    /\ pc' = [pc EXCEPT ![r] = "copy"]
    /\ UNCHANGED <<db, localExists, hashsumSupported, remoteEmail, remoteAux,
                   tmpObj, verifiedPublish, qVars, nonUpVars>>

RepairAfterAux(r) ==
    /\ pc[r] = "xret" /\ call[r].ctx = "repair" /\ call[r].xTarget = "aux"
    /\ call' = [call EXCEPT ![r] = ClearXfer(@)]
    /\ pc' = [pc EXCEPT ![r] = "repfin"]
    /\ UNCHANGED <<db, localExists, hashsumSupported, remoteEmail, remoteAux,
                   tmpObj, verifiedPublish, qVars, nonUpVars>>

\* if success: queue_entry(new_remote_path, hashlocal) and
\* db.update_remote_path(hash_, new_remote_path); else the row is left alone;
\* either way stats["repaired"] is incremented
RepairFinish(r) ==
    /\ pc[r] = "repfin"
    /\ stats' = [stats EXCEPT !.repaired = @ + 1]
    /\ IF repair_succeeded(call[r])
         THEN /\ \E writeOk \in BOOLEAN :
                    queue_entry(Main, PathOf(r), db[r].hash_sha256, writeOk)
              /\ db' = [db EXCEPT ![r].remote_path = PathOf(r)]
              /\ verifiedPublish' =
                    [verifiedPublish EXCEPT
                       ![r] = IF db[r].remote_path = PathOf(r) THEN @ ELSE FALSE]
              /\ call' = [call EXCEPT ![r] = Returned(@, "true")]
         ELSE /\ call' = [call EXCEPT ![r] = Returned(@, "false")]
              /\ UNCHANGED <<db, verifiedPublish, qVars>>
    /\ pc' = [pc EXCEPT ![r] = "done"]
    /\ UNCHANGED <<localExists, hashsumSupported, remoteEmail, remoteAux,
                   tmpObj, manVars, exVars, audit, auditFile, repair_on_failure>>

\* the message's source file disappears from the maildir between two stages
SourceGone(r) ==
    /\ pc[r] \in {"idle", "done"}
    /\ localExists[r]
    /\ localExists' = [localExists EXCEPT ![r] = FALSE]
    /\ UNCHANGED <<db, hashsumSupported, remoteEmail, remoteAux, tmpObj, pc, call, verifiedPublish, qVars, nonUpVars>>

\* the locals of integrity_check when no call is running
IdleAudit == [pc |-> "idle", rows |-> EmptyDict, todo |-> {}, cur |-> 0,
              remote_map |-> EmptyDict, missing |-> 0, mismatch |-> 0,
              counted |-> EmptyDict, signal |-> "none"]

\* no integrity_check has run; repairs follow a failed check
InitNoAudit ==
    /\ audit = IdleAudit
    /\ auditFile = NoFile
    /\ repair_on_failure = TRUE
    /\ stats = InitStats

InitQueue ==
    /\ manifestQueue = [w \in Writers |-> EmptyDict]
    /\ queueDump = [w \in Writers |-> NoFile]
    /\ lk = IdleLk

InitUpload ==
    /\ db \in [Rows -> {FreshRow} \cup {EarlierRow(r) : r \in Rows}]
    /\ \A r \in Rows : db[r] \in {FreshRow, EarlierRow(r)}
    /\ localExists \in [Rows -> BOOLEAN]
    /\ hashsumSupported \in BOOLEAN
    /\ remoteEmail = [r \in Rows |-> Absent]
    /\ remoteAux = [r \in Rows |-> Absent]
    /\ tmpObj = [r \in Rows |-> Absent]
    /\ pc = [r \in Rows |-> "idle"]
    /\ call = [r \in Rows |-> IdleCall]
    /\ verifiedPublish = [r \in Rows |-> db[r].synced]
    /\ InitQueue
    /\ InitManifest
    /\ InitExec
    /\ InitNoAudit

NextUpload ==
    \E r \in Rows :
        \/ StartUpload(r)
        \/ UploadAttempt(r)
        \/ AtomicCopy(r)
        \/ AtomicMove(r)
        \/ UploadAfterPublish(r)
        \/ UploadVerify(r)
        \/ UploadPostLoop(r)
        \/ UploadAfterAux(r)
        \/ UploadMark(r)
        \/ UploadQueue(r)
        \/ StartRepair(r)
        \/ RepairAfterEmail(r)
        \/ RepairAfterAux(r)
        \/ RepairFinish(r)
        \/ SourceGone(r)

SpecUpload == InitUpload /\ [][NextUpload]_vars

----------------------------------------------------------------------------
(* integrity_check (settings.verify_integrity is on)                        *)

\* remote_map.get(dremotepath, "missing")
rem_hash(remote_map, path) ==
    IF path \in DOMAIN remote_map THEN remote_map[path] ELSE "missing"

\* a check that only looks whether the path is in the map
classify_presence(remote_map, row) ==
    IF rem_hash(remote_map, row.remote_path) = "missing" THEN "missing" ELSE "ok"

\* the branch integrity_check takes for a row with a remote_path
classify(remote_map, row) ==
    IF rem_hash(remote_map, row.remote_path) = "missing" THEN "missing"
    ELSE IF row.hash_sha256 # Absent
              /\ rem_hash(remote_map, row.remote_path) # row.hash_sha256
           THEN "mismatch"
    ELSE "ok"

\* the first row of the rows still to visit (rows come in rowid order)
FirstOf(S) == CHOOSE r \in S : \A q \in S : r <= q

\* db.fetch_synced: the rows with synced_at set, as they are now
fetch_synced == [r \in {q \in Rows : db[q].synced} |-> db[r]]

\* integrity_check up to its loop: rclone_copyto of the remote manifest to
\* tmp_dir/manifest.csv, whose failure leaves an older copy in place (signal
\* remembers whether the file is this call's download). With
\* the file, remote_map is its content; without it remote_hash(settings,
\* "**/email.eml", False) hashes and lists the local path "False", finds
\* nothing and returns None, and the check is skipped
AuditStart ==
    /\ audit.pc = "idle"
    /\ \A r \in Rows : pc[r] \in {"idle", "done"}
    /\ rs[Main].pc = "idle"
    /\ \E copyOk \in BOOLEAN :
        /\ auditFile' = IF copyOk /\ canon.exists THEN canon ELSE auditFile
        /\ audit' = IF auditFile'.exists
                       THEN [IdleAudit EXCEPT !.pc = "loop",
                                              !.remote_map = auditFile'.data,
                                              !.rows = fetch_synced,
                                              !.todo = DOMAIN fetch_synced,
                                              !.signal = IF copyOk /\ canon.exists
                                                           THEN "manifest"
                                                           ELSE "stale"]
                       ELSE [IdleAudit EXCEPT !.pc = "aborted"]
    /\ UNCHANGED <<repair_on_failure, stats, upVars, qVars, manVars, exVars>>

\* the counters row r has been counted in so far
Counted(r) == IF r \in DOMAIN audit.counted THEN audit.counted[r] ELSE {}

\* stats["verified"] += 1 at the end of a loop iteration
CountVerified(a, r) ==
    [a EXCEPT !.todo = @ \ {r}, !.pc = "loop", !.cur = 0,
              !.counted = Update(@, Single(r, Counted(r) \cup {"verified"}))]

\* one iteration of the loop up to repair_remote or the end of the
\* iteration: a row without remote_path is skipped; a missing or
\* mismatched row is counted and, with repair_on_failure, repaired
AuditRow ==
    /\ audit.pc = "loop"
    /\ audit.todo # {}
    /\ LET r   == FirstOf(audit.todo)
           row == audit.rows[r]
           cls == classify(audit.remote_map, row)
           a   == [audit EXCEPT
                     !.missing = IF cls = "missing" THEN @ + 1 ELSE @,
                     !.mismatch = IF cls = "mismatch" THEN @ + 1 ELSE @,
                     !.counted = IF cls = "ok" THEN @
                                 ELSE Update(@, Single(r, {cls}))]
       IN  IF row.remote_path = NoPath
             THEN /\ audit' = [audit EXCEPT !.todo = @ \ {r}]
                  /\ UNCHANGED <<pc, call, stats>>
           ELSE IF cls # "ok" /\ repair_on_failure
             THEN /\ audit' = [a EXCEPT !.pc = "repair", !.cur = r]
                  /\ repair_remote_begin(r)
                  /\ UNCHANGED stats
           ELSE /\ audit' = [a EXCEPT
                               !.todo = @ \ {r},
                               !.counted = Update(@, Single(r,
                                   (IF cls = "ok" THEN {} ELSE {cls})
                                       \cup {"verified"}))]
                /\ stats' = [stats EXCEPT !.verified = @ + 1]
                /\ UNCHANGED <<pc, call>>
    /\ UNCHANGED <<db, localExists, hashsumSupported, remoteEmail, remoteAux,
                   tmpObj, verifiedPublish, auditFile, repair_on_failure,
                   qVars, manVars, exVars>>

\* repair_remote has returned: the rest of the iteration
AuditAfterRepair ==
    /\ audit.pc = "repair"
    /\ pc[audit.cur] = "done"
    /\ audit' = CountVerified(audit, audit.cur)
    /\ stats' = [stats EXCEPT !.verified = @ + 1]
    /\ UNCHANGED <<auditFile, repair_on_failure, upVars, qVars, manVars, exVars>>

\* after the loop, upload_manifest_if_needed() with entries queued by
\* repairs: the flush is entered
AuditFlush ==
    /\ audit.pc = "loop"
    /\ audit.todo = {}
    /\ FlushIfNeeded(Main)

\* upload_manifest_if_needed() had nothing to upload or has returned
AuditEnd ==
    /\ audit.pc = "loop"
    /\ audit.todo = {}
    /\ rs[Main].pc = "idle"
    /\ manifestQueue[Main] = EmptyDict
    /\ audit' = [audit EXCEPT !.pc = "done"]
    /\ UNCHANGED <<auditFile, repair_on_failure, stats, upVars, qVars, manVars,
                   exVars>>

\* the paths a row can have in the catalog
AllPaths == {PathOf(r) : r \in Rows} \cup {StalePath(r) : r \in Rows}

\* the contents a manifest.csv can have
ManifestDicts == UNION {[D -> Hashes] : D \in SUBSET AllPaths}

\* a row synced before remote_path and hash_sha256 were recorded
LegacyRow == [synced |-> TRUE, hash_sha256 |-> Absent, remote_path |-> NoPath]

\* rows as mark_synced and update_remote_path leave them
SyncedRows(r) == {[synced |-> TRUE, hash_sha256 |-> h, remote_path |-> p] :
                    h \in Hashes, p \in {PathOf(r), StalePath(r)}}

\* a catalog and a remote manifest left by earlier runs, no stage running
InitAudit ==
    /\ db \in [Rows -> {FreshRow, LegacyRow} \cup UNION {SyncedRows(r) : r \in Rows}]
    /\ \A r \in Rows : db[r] \in {FreshRow, LegacyRow} \cup SyncedRows(r)
    /\ localExists \in [Rows -> BOOLEAN]
    /\ hashsumSupported = TRUE
    /\ remoteEmail = [r \in Rows |-> Absent]
    /\ remoteAux = [r \in Rows |-> Absent]
    /\ tmpObj = [r \in Rows |-> Absent]
    /\ pc = [r \in Rows |-> "idle"]
    /\ call = [r \in Rows |-> IdleCall]
    /\ verifiedPublish = [r \in Rows |-> db[r].synced]
    /\ InitQueue
    /\ InitManifestLocal
    /\ canon \in {NoFile} \cup {File(d) : d \in ManifestDicts}
    /\ InitExec
    /\ audit = IdleAudit
    /\ auditFile \in {NoFile, File(EmptyDict)}
    /\ repair_on_failure \in BOOLEAN
    /\ stats = InitStats

NextAudit ==
    \/ AuditStart
    \/ AuditRow
    \/ AuditAfterRepair
    \/ AuditFlush
    \/ AuditEnd
    \/ \E r \in Rows :
        \/ AtomicCopy(r)
        \/ AtomicMove(r)
        \/ RepairAfterEmail(r)
        \/ RepairAfterAux(r)
        \/ RepairFinish(r)
    \/ ResyncStart(Main)
    \/ ResyncMerge(Main)
    \/ ResyncUploadTemp(Main)
    \/ ResyncRecheck(Main)
    \/ ResyncMove(Main)

SpecAudit == InitAudit /\ [][NextAudit]_vars

\* the run ends and the next run of the program reaches its integrity
\* stage: a new stats dict, the catalog, the remote and tmp_dir as they are
AuditAgain ==
    /\ audit.pc \in {"done", "aborted"}
    /\ rs[Main].run < MaxRuns
    /\ audit' = IdleAudit
    /\ stats' = InitStats
    /\ UNCHANGED <<auditFile, repair_on_failure, upVars, qVars, manVars, exVars>>

\* integrity checks of successive runs
SpecReaudit == InitAudit /\ [][NextAudit \/ AuditAgain]_vars

----------------------------------------------------------------------------
(* The manifest part on its own: the writers queue, flush and resync       *)
(* against the shared remote while no upload or repair is running.         *)
InitMan ==
    /\ db = [r \in Rows |-> [synced |-> FALSE, hash_sha256 |-> Absent,
                             remote_path |-> NoPath]]
    /\ localExists = [r \in Rows |-> TRUE]
    /\ hashsumSupported = TRUE
    /\ remoteEmail = [r \in Rows |-> Absent]
    /\ remoteAux = [r \in Rows |-> Absent]
    /\ tmpObj = [r \in Rows |-> Absent]
    /\ pc = [r \in Rows |-> "idle"]
    /\ call = [r \in Rows |-> IdleCall]
    /\ verifiedPublish = [r \in Rows |-> FALSE]
    /\ InitQueue
    /\ InitManifest
    /\ InitExec
    /\ InitNoAudit

NextManifest ==
    \E w \in Writers :
        \/ QueueEntry(w)
        \/ FlushIfNeeded(w)
        \/ ResyncStart(w)
        \/ ResyncMerge(w)
        \/ ResyncUploadTemp(w)
        \/ ResyncRecheck(w)
        \/ ResyncMove(w)
        \/ ResyncConflict(w)

SpecManifest == InitMan /\ [][NextManifest]_vars

----------------------------------------------------------------------------
(* One process through interrupts, kills and restarts. Alone on its remote *)
(* it never meets a changed manifest twice in one resync, so the conflict  *)
(* branch of the loop is not among its steps.                              *)
NextLifecycle ==
    \/ QueueEntry(Main)
    \/ FlushIfNeeded(Main)
    \/ ResyncStart(Main)
    \/ ResyncMerge(Main)
    \/ ResyncUploadTemp(Main)
    \/ ResyncRecheck(Main)
    \/ ResyncMove(Main)
    \/ OnInterrupt(Main)
    \/ ExitFinally(Main)
    \/ Kill(Main)
    \/ RecoverInterrupted(Main)
    \/ RestoreQueue(Main)

SpecLifecycle == InitMan /\ [][NextLifecycle]_vars

\* one process that may also run its pipeline to the end
NextMain ==
    \/ NextLifecycle
    \/ MainCompletes(Main)

SpecMain == InitMan /\ [][NextMain]_vars

----------------------------------------------------------------------------
(* One process that flushes and also calls the resync without entries, the *)
(* only writer of its remote.                                              *)
NextResync ==
    \/ QueueEntry(Main)
    \/ FlushIfNeeded(Main)
    \/ ResyncNoExtra(Main)
    \/ ResyncStart(Main)
    \/ ResyncMerge(Main)
    \/ ResyncUploadTemp(Main)
    \/ ResyncRecheck(Main)
    \/ ResyncMove(Main)

SpecResync == InitMan /\ [][NextResync]_vars

\* somebody outside the program deletes the canonical manifest from the
\* remote (a new or emptied remote); the files under tmp_dir stay
RemoteManifestRemoved ==
    /\ canon.exists
    /\ rs[Main].pc = "idle"
    /\ canon' = NoFile
    /\ UNCHANGED <<localManifest, downloadFile, inprogress, rs, remoteTmps,
                   conflictCopies, handed, outcome, queued, faults, life, qVars,
                   upVars, auVars, exVars>>

\* a lone writer whose remote may be emptied between two calls
SpecRemote == InitMan /\ [][NextResync \/ RemoteManifestRemoved]_vars

\* one process whose worker threads queue entries while its main thread
\* flushes, statement by statement
NextFlush ==
    \/ \E t \in Threads :
        \/ QAcquire(t)
        \/ QAdd(t)
        \/ QWrite(t)
    \/ FAcquire
    \/ FSnapshot
    \/ FClear
    \/ FUnlink
    \/ FResync
    \/ ResyncStart(Main)
    \/ ResyncMerge(Main)
    \/ ResyncUploadTemp(Main)
    \/ ResyncRecheck(Main)
    \/ ResyncMove(Main)

SpecFlush == InitMan /\ [][NextFlush]_vars

\* a signal is delivered: the main thread stops where it is and runs
\* on_interrupt, up to `with self._lock` of dump_queue
SignalArrives ==
    /\ lk.hpc = "none"
    /\ lk' = [lk EXCEPT !.hpc = "waiting"]
    /\ UNCHANGED <<manifestQueue, queueDump, manVars, upVars, auVars, exVars>>

\* on_interrupt inside dump_queue: the lock is taken when nobody holds it
\* (threading.Lock is not reentrant), the queue is written and the handler
\* goes on to sys.exit(1)
HandlerDump ==
    /\ lk.hpc = "waiting"
    /\ lock_free(lk.holder)
    /\ \E writeOk \in BOOLEAN :
        queueDump' = IF manifestQueue[Main] # EmptyDict /\ writeOk
                       THEN [queueDump EXCEPT ![Main] = File(manifestQueue[Main])]
                       ELSE queueDump
    /\ lk' = [lk EXCEPT !.hpc = "done"]
    /\ UNCHANGED <<manifestQueue, manVars, upVars, auVars, exVars>>

\* the steps of the main thread, which stand still while its handler runs
MainThreadStep ==
    /\ lk.hpc = "none"
    /\ \/ FAcquire
       \/ FSnapshot
       \/ FClear
       \/ FUnlink
       \/ FResync
       \/ ResyncStart(Main)
       \/ ResyncMerge(Main)
       \/ ResyncUploadTemp(Main)
       \/ ResyncRecheck(Main)
       \/ ResyncMove(Main)

\* worker threads queue entries, the main thread flushes, a signal may
\* arrive at any statement of the main thread
SpecSignal ==
    InitMan /\ [][\/ \E t \in Threads :
                       \/ QAcquire(t)
                       \/ QAdd(t)
                       \/ QWrite(t)
                   \/ MainThreadStep
                   \/ SignalArrives
                   \/ HandlerDump]_vars

\* the retry budget of the resync loop is never used up by a lone process
LoneWriterNeverConflicts == rs[Main].pc = "loop" => rs[Main].attempt < max_retries

----------------------------------------------------------------------------
(* The executor part on its own: pools, their map calls and interrupts     *)
(* while the catalog, the remote and the manifest are left alone.          *)
NextExec ==
    \/ \E k \in Pools :
        \/ Enter(k)
        \/ MapCall(k)
        \/ MapLoopCheck(k)
        \/ MapSubmitCheck(k)
        \/ MapSubmitEnqueue(k)
        \/ TaskStart(k)
        \/ TaskFinish(k)
        \/ MapReturn(k)
        \/ MapCollect(k)
        \/ FlagSet(k)
        \/ InterruptSetFlag(k)
        \/ InterruptShutdown(k)
        \/ Exit(k)
        \/ ExitJoin(k)
    \/ InterruptAllSetFlag
    \/ InterruptAllSnapshot
    \/ InterruptAllNext
    \/ InterruptAllShutdown

SpecExec == InitMan /\ [][NextExec]_vars

\* incremental_upload and rotate_archives after executor.map returned:
\* if executor.interrupt_flag.is_set(): raise KeyboardInterrupt()
stage_interrupted(k) == localFlag[k]

\* the stage's check after map: abort, or go on to the next batch and to
\* upload_manifest_if_needed
StageCheck(k) ==
    /\ phase[k] = "in"
    /\ m[k].pc = "done"
    /\ m[k].outcome = "returned"
    /\ m[k].stage = "none"
    /\ m' = [m EXCEPT ![k].stage = IF stage_interrupted(k) THEN "aborted"
                                                            ELSE "continued"]
    /\ UNCHANGED <<globalFlag, registered, localFlag, executor, phase, task, ipc,
                   gpc, upVars, auVars, qVars, manVars>>

\* the upload or rotation stage around its pool
SpecStage == InitMan /\ [][NextExec \/ \E k \in Pools : StageCheck(k)]_vars

\* several pools at once: the pools of NextExec, and pools whose owner only
\* enters and leaves the `with` block
NextRegistry ==
    \/ NextExec
    \/ \E k \in Scoped :
        \/ Enter(k)
        \/ Exit(k)
        \/ ExitJoin(k)

SpecRegistry == InitMan /\ [][NextRegistry]_vars

----------------------------------------------------------------------------
(* Claims checked under SpecUpload *)

\* C3: in every reachable state a catalog row's remote_path is non-empty
\* only if the message body now at that path was published and then verified
\* against the expected hash (for values set by upload and by repair).
C3_RemotePathOnlyAfterVerifiedPublish ==
    \A r \in Rows : db[r].remote_path # NoPath => verifiedPublish[r]

\* upload_email has just marked a row synced and stored its remote_path
C3_RemotePathStored ==
    \E r \in Rows : /\ pc[r] = "queue" /\ call[r].ctx = "upload"
                    /\ db[r].remote_path = PathOf(r)

\* C6: when atomic_upload_file fails at the copy step or at the rename step
\* it returns False and the object at remote_final is what it was before the
\* call (same content, or still absent).
C6_FailedPublishLeavesDestination ==
    \A r \in Rows :
        (pc[r] = "xret" /\ call[r].xFail # "none")
            => (~call[r].xRet /\ Dest(r, call[r].xTarget) = call[r].xPre)

\* a rename failed over a destination that already held an object
C6_RenameFailedOverExisting ==
    \E r \in Rows : /\ pc[r] = "xret" /\ call[r].xFail = "move"
                    /\ call[r].xPre # Absent

\* C7 as stated: the verification loop of upload_email ends in success if and
\* only if the object at the remote path then has the expected hash.
C7_SuccessIffRemoteHash ==
    \A r \in Rows :
        (pc[r] = "postloop" /\ call[r].ctx = "upload")
            => (call[r].emailUploaded <=> remoteEmail[r] = GoodHash)

\* the verification loop has ended in failure although the object at the
\* remote path has the expected hash
C7_GoodObjectRejected ==
    \E r \in Rows : /\ pc[r] = "postloop" /\ call[r].ctx = "upload"
                    /\ call[r].emailLocal /\ ~call[r].emailUploaded
                    /\ remoteEmail[r] = GoodHash

\* C8: when max_attempts verifications of one upload_email call failed, the
\* call made exactly max_attempts publish attempts and a delete after each
\* failed verification, and it returns False with the row neither marked
\* synced nor queued for the manifest.
C8_ExhaustedVerification ==
    \A r \in Rows :
        /\ (pc[r] = "postloop" /\ call[r].ctx = "upload"
                /\ call[r].verifyFails >= max_attempts)
             => /\ call[r].publishCalls = max_attempts
                /\ call[r].deleteCalls = max_attempts
                /\ ~call[r].emailUploaded
        /\ (call[r].ctx = "upload"
                /\ \/ pc[r] = "postloop" /\ ~call[r].emailUploaded
                   \/ pc[r] = "done" /\ call[r].ret = "false")
             => /\ ~db[r].synced
                /\ PathOf(r) \notin DOMAIN manifestQueue[Main]

\* three verifications failed in one call
C8_ThreeMismatches ==
    \E r \in Rows : /\ pc[r] = "postloop" /\ call[r].ctx = "upload"
                    /\ call[r].verifyFails = max_attempts

----------------------------------------------------------------------------
(* Claims about the manifest part (SpecManifest) *)

\* every resync has returned and nothing is queued
AllReturned == \A w \in Writers : rs[w].pc = "idle" /\ manifestQueue[w] = EmptyDict

ConflictWriters == {w \in Writers : outcome[w] = "conflict"}

\* the entries of dict d are all in dict e
Incorporated(d, e) == \A p \in DOMAIN d : p \in DOMAIN e /\ e[p] = d[p]

(* C1: when writers resync concurrently, each adding entries for its own   *)
(* paths, and no I/O operation failed, then once every call has returned   *)
(* the canonical manifest holds the entries of every writer, except that   *)
(* at most one writer may have ended in a conflict copy.                   *)
C1_UnionAfterConcurrentResync ==
    (AllReturned /\ faults = 0)
        => /\ Cardinality(ConflictWriters) <= 1
           /\ \A w \in Writers \ ConflictWriters :
                Incorporated(handed[w], canon.data)

\* two writers have both flushed and returned from a fault-free resync
C1_BothWritersReturned ==
    /\ AllReturned
    /\ faults = 0
    /\ \A w \in Writers : outcome[w] # "none"

(* C2: an entry that is no longer in the queue (neither in the in-memory   *)
(* map nor in its dump file) is present in a written manifest: the local   *)
(* manifest file or the canonical remote manifest.                         *)
C2_DequeuedOnlyAfterIncorporated ==
    \A w \in Writers : \A p \in DOMAIN handed[w] :
        \/ (p \in DOMAIN manifestQueue[w] /\ manifestQueue[w][p] = handed[w][p])
        \/ (p \in DOMAIN queueDump[w].data /\ queueDump[w].data[p] = handed[w][p])
        \/ (p \in DOMAIN localManifest[w].data /\ localManifest[w].data[p] = handed[w][p])
        \/ (p \in DOMAIN canon.data /\ canon.data[p] = handed[w][p])

\* a flush has taken its snapshot and the resync has not written yet
C2_SnapshotTaken ==
    \E w \in Writers : rs[w].pc = "start" /\ rs[w].extra # EmptyDict

(* C4: whenever a queue_entry call returns, the dump file holds the whole  *)
(* in-memory queue, the new entry included.                                *)
C4_DumpHoldsQueueOnReturn ==
    [][\A w \in Writers :
          queued'[w] # queued[w] => queueDump'[w] = File(manifestQueue'[w])]_vars

\* a queue_entry call has returned with its entry in the dump file
C4_EntryPersisted ==
    \E w \in Writers : /\ manifestQueue[w] # EmptyDict
                       /\ queueDump[w] = File(manifestQueue[w])

(* C5: the canonical remote manifest changes only by a resync renaming its *)
(* own uniquely named temp object onto it, and only when the hash of the   *)
(* re-download equals the baseline hash of the merge.                      *)
C5_CanonOnlyByCasRename ==
    [][canon' # canon =>
         \E w \in Writers :
            /\ rs[w].pc = "move"
            /\ rs[w].current_sha = rs[w].remote_sha
            /\ \E t \in remoteTmps :
                 /\ t.owner = w /\ t.run = rs[w].run /\ t.n = rs[w].attempt
                 /\ canon' = File(t.data)
                 /\ t \notin remoteTmps']_vars

\* a writer that had to retry is about to rename its temp object onto a
\* canonical manifest another writer's rename has already replaced
C5_RenameAfterRetry ==
    \E w \in Writers :
        /\ rs[w].pc = "move"
        /\ rs[w].attempt > 1
        /\ MyTmp(w) # {}
        /\ canon.exists

----------------------------------------------------------------------------
(* Claims about the executor part (SpecExec) *)

(* C9: a map call that was reached by interrupt() or interrupt_all() while *)
(* it had results outstanding (and was given an increment callback) ends   *)
(* by returning, never by raising, and every TaskResult it returns belongs *)
(* to a task that has completed.                                           *)
C9_InterruptedMapReturnsCompleted ==
    \A k \in Pools :
        (m[k].pc = "done" /\ m[k].intrBy \in {"interrupt", "all"} /\ m[k].hasCallback)
            => /\ m[k].outcome = "returned"
               /\ \A r \in m[k].results : task[k][r.item] \in DoneStates

\* an interrupted map call has returned a partial result list
C9_PartialResultsReturned ==
    \E k \in Pools :
        /\ m[k].pc = "done"
        /\ m[k].intrBy \in {"interrupt", "all"}
        /\ m[k].outcome = "returned"
        /\ m[k].results # {}
        /\ Submitted(k) \ m[k].collected # {}

(* C10: a map call during which a flag of its pool became set while it had *)
(* tasks outstanding (and was given an increment callback) ends by raising *)
(* KeyboardInterrupt.                                                      *)
C10_InterruptedMapRaisesKeyboardInterrupt ==
    \A k \in Pools :
        (m[k].pc = "done" /\ m[k].intrBy # "none" /\ m[k].hasCallback)
            => m[k].outcome = "KeyboardInterrupt"

\* a map call whose pool's flag was set directly has ended
C10_FlaggedMapEnded ==
    \E k \in Pools :
        /\ m[k].pc = "done"
        /\ m[k].intrBy = "flag"
        /\ m[k].hasCallback
        /\ Submitted(k) \ m[k].collected # {}

(* C11: a submit call on a pool inside its scope raises InterruptedError  *)
(* whenever the pool's flag or the global flag is set when it is called,   *)
(* however the flag came to be set; otherwise it goes on to schedule the   *)
(* task.                                                                   *)
C11_SubmitRaisesInterruptedErrorIffFlag ==
    [][\A k \in Pools :
          (m[k].pc = "submit" /\ m'[k].pc # "submit")
              => IF Interrupted(k)
                   THEN m'[k].pc = "done" /\ m'[k].outcome = "InterruptedError"
                   ELSE m'[k].pc = "enqueue"]_vars

\* a submit call has raised InterruptedError
C11_SubmitRaisedInterruptedError ==
    \E k \in Pools : m[k].pc = "done" /\ m[k].outcome = "InterruptedError"


----------------------------------------------------------------------------
\* C12: when an interrupt arrives during the upload stage (no flush has
\* begun in this first run of the process) and the process has exited
\* through the handler and the finally clause, the queue file holds, for
\* every entry that upload tasks had queued before the interrupt, the value
\* last handed over for its path.
C12_QueueFileReflectsCompletedTasks ==
    (/\ rs[Main].pc = "dead"
     /\ life[Main].how = "interrupted"
     /\ life[Main].first
     /\ rs[Main].run = 0)
        => \A p \in DOMAIN life[Main].atInt :
              /\ queueDump[Main].exists
              /\ p \in DOMAIN queueDump[Main].data
              /\ queueDump[Main].data[p] = handed[Main][p]

\* an interrupted upload stage with a queued entry has run to its exit
C12_InterruptedUploadExited ==
    /\ rs[Main].pc = "dead"
    /\ life[Main].how = "interrupted"
    /\ life[Main].first
    /\ rs[Main].run = 0
    /\ life[Main].atInt # EmptyDict

----------------------------------------------------------------------------
\* C13: when the process is killed with (p, h) the entry queue_entry
\* returned last, the queue in memory contains (p, h) once restore_queue
\* has returned after the restart.
C13_RestoredQueueHoldsLastEntry ==
    [][(rs[Main].pc = "restore" /\ rs'[Main].pc = "idle")
          => Incorporated(life[Main].atKill, manifestQueue'[Main])]_vars

\* restore_queue has brought back the entry of a killed process
C13_EntryRestoredAfterKill ==
    /\ rs[Main].pc = "idle"
    /\ life[Main].kills > 0
    /\ ~life[Main].first
    /\ manifestQueue[Main] # EmptyDict
    /\ Incorporated(manifestQueue[Main], handed[Main])

----------------------------------------------------------------------------
\* C14: a map call that ended without any flag having been set returned,
\* with or without an increment callback, exactly one TaskResult per item,
\* whose success tells whether fn returned or raised for that item.
C14_UninterruptedMapReturnsOnePerItem ==
    \A k \in Pools :
        (/\ m[k].pc = "done"
         /\ m[k].intrBy = "none"
         /\ ~globalFlag
         /\ ~localFlag[k])
            => /\ m[k].outcome = "returned"
               /\ Cardinality(m[k].results) = NumItems
               /\ {res.item : res \in m[k].results} = Items
               /\ \A res \in m[k].results :
                     res.success = (task[k][res.item] = "ok")

\* an uninterrupted map has returned a result for every item, one of them
\* the failure of its fn
C14_AllResultsWithFailure ==
    \E k \in Pools :
        /\ m[k].pc = "done"
        /\ m[k].intrBy = "none"
        /\ ~globalFlag
        /\ ~localFlag[k]
        /\ m[k].outcome = "returned"
        /\ Cardinality(m[k].results) = NumItems
        /\ \E res \in m[k].results : ~res.success

----------------------------------------------------------------------------
\* C15: when repair_remote ends after the upload of the rebuilt email.eml
\* failed, the row's remote_path is what it was when the repair began and
\* the queue holds for the row's path what it held then: nothing was queued
\* for the row.
C15_FailedRepairLeavesRowAndQueue ==
    [][\A r \in Rows :
          (pc[r] = "repfin" /\ pc'[r] = "done" /\ ~call[r].success)
              => /\ db'[r].remote_path = call[r].prePath
                 /\ QueuedFor(r)' = call[r].preEntry]_vars

\* a repair whose upload failed has returned for a row whose path it would
\* have replaced
C15_RepairFailedOnStaleRow ==
    \E r \in Rows :
        /\ call[r].ctx = "repair" /\ pc[r] = "done" /\ call[r].ret = "false"
        /\ db[r].remote_path = StalePath(r)
        /\ QueuedFor(r) = "none"

----------------------------------------------------------------------------
\* C16: while integrity_check repairs a row it found missing or mismatched,
\* the path derived for the repair differs from the remote_path the row had.
C16_RepairPathDiffersFromRowPath ==
    audit.pc = "repair"
        => PathOf(audit.cur) # audit.rows[audit.cur].remote_path

\* a row whose recorded path is not the derived one is being repaired
C16_RepairOfStaleRow ==
    /\ audit.pc = "repair"
    /\ audit.rows[audit.cur].remote_path = StalePath(audit.cur)

----------------------------------------------------------------------------
\* C17: the step that ends a repair whose upload failed leaves
\* stats["repaired"] as it was (and counts the failure instead).
C17_FailedRepairNotCountedRepaired ==
    [][\A r \in Rows :
          (pc[r] = "repfin" /\ pc'[r] = "done" /\ ~call[r].success)
              => stats'.repaired = stats.repaired]_vars

\* a repair that succeeded has been counted
C17_SuccessfulRepairCounted ==
    \E r \in Rows :
        /\ call[r].ctx = "repair" /\ pc[r] = "done" /\ call[r].ret = "true"
        /\ stats.repaired = 1

----------------------------------------------------------------------------
\* the fetched rows with a remote_path that the loop has dealt with (the row
\* under repair has been counted already)
Classified ==
    {r \in DOMAIN audit.rows :
        /\ audit.rows[r].remote_path # NoPath
        /\ (r \notin audit.todo \/ audit.cur = r)}

\* the row went through the loop with neither warning nor repair
TreatedOK(r) == Counted(r) \cap {"missing", "mismatch"} = {}

\* C18: every synced row with a remote_path that the check has dealt with
\* was treated as missing iff its path is not in the resolved map, as
\* mismatched iff the map has a different hash for it than the row's
\* hash_sha256, and as in order iff the map has the row's hash for it.
C18_ClassifiedByMapAndHash ==
    \A r \in Classified :
        LET row     == audit.rows[r]
            present == row.remote_path \in DOMAIN audit.remote_map
            same    == present /\ audit.remote_map[row.remote_path] = row.hash_sha256
        IN  /\ ("missing" \in Counted(r)) <=> ~present
            /\ ("mismatch" \in Counted(r)) <=> (present /\ ~same)
            /\ TreatedOK(r) <=> same

\* the check has found a row whose path the map lists with another hash
C18_MismatchFound ==
    \E r \in Classified :
        /\ "mismatch" \in Counted(r)
        /\ audit.rows[r].remote_path \in DOMAIN audit.remote_map

----------------------------------------------------------------------------
\* C19: when the check has ended, stats["verified"] is the number of rows it
\* found in order; missing and mismatched rows are not in it.
C19_VerifiedCountsOnlyOK ==
    audit.pc = "done"
        => stats.verified = Cardinality({r \in Classified : TreatedOK(r)})

\* a check has ended that found a row in order and counted it verified
C19_CheckEndedWithOKRow ==
    /\ audit.pc = "done"
    /\ stats.verified = 1
    /\ \E r \in Classified : TreatedOK(r)

----------------------------------------------------------------------------
\* C20: when a check has ended without aborting, every synced row with a
\* remote_path was counted in exactly one of missing, mismatch and verified,
\* the three counts add up to the number of these rows, and no row without
\* remote_path was counted anywhere.
C20_ClassesPartitionRows ==
    audit.pc = "done"
        => /\ \A r \in Classified : Cardinality(Counted(r)) = 1
           /\ audit.missing + audit.mismatch + stats.verified
                 = Cardinality(Classified)
           /\ \A r \in DOMAIN audit.rows :
                 audit.rows[r].remote_path = NoPath => Counted(r) = {}

\* a check has ended that skipped a row without remote_path
C20_CheckEndedWithSkippedRow ==
    /\ audit.pc = "done"
    /\ \E r \in DOMAIN audit.rows : audit.rows[r].remote_path = NoPath

----------------------------------------------------------------------------
\* C21: when integrity_check got no remote manifest and remote_hash gave
\* nothing, no row is counted, no repair is begun and the queue stays as it
\* was.
C21_NoSignalAbortsBeforeClassifying ==
    (audit.pc # "idle" /\ audit.signal # "manifest")
        => /\ audit.missing = 0 /\ audit.mismatch = 0
           /\ audit.counted = EmptyDict
           /\ stats = InitStats
           /\ \A r \in Rows : pc[r] = "idle"
           /\ manifestQueue[Main] = EmptyDict

\* a check over a catalog with a published row has aborted
C21_AbortedWithPublishedRow ==
    /\ audit.pc = "aborted"
    /\ \E r \in Rows : db[r].synced /\ db[r].remote_path # NoPath

----------------------------------------------------------------------------
\* the merge a resync holds when its retries are used up: the remote entries
\* of its last re-check under its local entries and its extra entries
LastMerge(w) == Merge(downloadFile[w].data, rs[w].local_entries, rs[w].extra)

\* C22: the step that ends a resync whose every attempt met a changed
\* manifest leaves the canonical manifest alone, puts the merge on the
\* remote as a new conflict copy and ends the call as a conflict.
C22_ExhaustedResyncWritesConflictCopy ==
    [][\A w \in Writers :
          (rs[w].pc = "loop" /\ rs[w].attempt >= max_retries /\ rs'[w].pc # "loop")
              => /\ canon' = canon
                 /\ outcome'[w] = "conflict"
                 /\ \E c \in conflictCopies' \ conflictCopies :
                       c.owner = w /\ c.data = LastMerge(w)]_vars

\* a resync has used up its retries and its conflict copy is on the remote
C22_ConflictCopyWritten ==
    \E w \in Writers :
        /\ outcome[w] = "conflict"
        /\ rs[w].pc = "idle"
        /\ \E c \in conflictCopies : c.owner = w /\ c.run = rs[w].run

----------------------------------------------------------------------------
\* C23: a start that finds the in-progress marker unlinks it and enters a
\* resync without extra entries; while that resync runs nothing is queued
\* or flushed by a pipeline stage; and when it returns, restore_queue is
\* next and the marker is absent.
C23_RecoveryResyncsBeforeStages ==
    [][/\ (rs[Main].pc = "dead" /\ inprogress[Main] /\ rs'[Main].pc # "dead")
            => /\ rs'[Main].pc = "start"
               /\ rs'[Main].caller = "recover"
               /\ rs'[Main].extra = EmptyDict
               /\ ~inprogress'[Main]
       /\ rs[Main].caller = "recover"
            => /\ manifestQueue'[Main] = manifestQueue[Main]
               /\ handed'[Main] = handed[Main]
       /\ (rs[Main].caller = "recover" /\ rs'[Main].caller = "recovered")
            => /\ rs'[Main].pc = "restore"
               /\ ~inprogress'[Main]]_vars

\* recover_interrupted has returned from its resync, which wrote the
\* canonical manifest
C23_RecoveryReturned ==
    /\ rs[Main].pc = "restore"
    /\ rs[Main].caller = "recovered"
    /\ outcome[Main] = "moved"
    /\ canon.exists

----------------------------------------------------------------------------
\* C24: the step that ends a resync without extra entries, begun right
\* after another resync without extra entries and with no other writer,
\* moves on its first attempt and leaves the canonical manifest as the call
\* found it.
C24_SecondResyncIsNoOp ==
    [][(/\ rs[Main].pc \in {"move", "loop"}
        /\ rs'[Main].pc = "idle"
        /\ rs[Main].extra = EmptyDict
        /\ rs[Main].prev = "noextra")
           => /\ outcome'[Main] = "moved"
              /\ rs[Main].attempt = 1
              /\ canon' = rs[Main].h0]_vars

\* the second of two resyncs without entries in a row is about to move its
\* temp object over a manifest that holds an entry
C24_SecondResyncAboutToMove ==
    /\ rs[Main].pc = "move"
    /\ rs[Main].extra = EmptyDict
    /\ rs[Main].prev = "noextra"
    /\ rs[Main].attempt = 1
    /\ canon = rs[Main].h0
    /\ canon.exists /\ canon.data # EmptyDict
    /\ MyTmp(Main) # {}
----------------------------------------------------------------------------
(* Claims about the registry of pools (SpecRegistry) *)

\* C25 (as stated): after interrupt_all has returned the global flag is set
\* and every pool that was registered when interrupt_all was called has its
\* local flag set, with several pools active at once.
C25_PoolsRegisteredAtCallInterrupted ==
    gpc.pc = "done" =>
        /\ globalFlag
        /\ \A k \in gpc.called : localFlag[k]

\* C25 (amended): after interrupt_all has returned the global flag is set and
\* every pool that was in the registry when interrupt_all read it (under the
\* lock, after setting the global flag) has its local flag set.
C25_PoolsInSnapshotInterrupted ==
    gpc.pc = "done" =>
        /\ globalFlag
        /\ \A k \in gpc.snap : localFlag[k]

\* interrupt_all has returned after interrupting two pools at once
C25_TwoPoolsInterrupted ==
    /\ gpc.pc = "done"
    /\ Cardinality(gpc.snap) >= 2
    /\ \E k \in Pools : m[k].intrBy = "all"

\* C26: a pool is in the global registry exactly while it is inside its
\* `with` block, whether the block ends normally, by an error or after an
\* interrupt, so get_executor_count is the number of pools in scope.
C26_RegisteredExactlyInScope ==
    /\ registered = InScope
    /\ get_executor_count = Cardinality(InScope)

\* a pool has left its block after map raised under an interrupt while
\* another pool is still inside its own
C26_LeftAfterInterruptedMap ==
    /\ \E k \in Pools : /\ phase[k] \in {"closing", "exited"}
                         /\ m[k].outcome \notin {"none", "returned"}
                         /\ Interrupted(k)
    /\ \E j \in Scoped : phase[j] = "in"
    /\ get_executor_count = 1

----------------------------------------------------------------------------
(* Claims about the end of a run (SpecMain) *)

\* C27: when the run of the stages has ended, by completing or by an
\* interrupt, the final counts have been reported (log_status).
C27_CountsReportedWhenRunEnds ==
    \A w \in Writers :
        (rs[w].pc = "dead" /\ life[w].how \in {"completed", "interrupted"})
            => life[w].reported

\* a run was interrupted after a worker had handed over an entry, and has
\* exited through on_interrupt and the finally clause
C27_InterruptedRunExited ==
    /\ rs[Main].pc = "dead"
    /\ life[Main].how = "interrupted"
    /\ life[Main].atInt # EmptyDict

----------------------------------------------------------------------------
(* Claims about a lone resync and the restored queue *)

\* C28: upload_manifest_resilient ends as a success (logs the atomic update
\* and returns without a conflict copy) only if the temp object was uploaded
\* and moved onto the canonical path; with no concurrent writer the
\* canonical manifest then holds the merge.
C28_SuccessOnlyAfterUploadAndMove ==
    [][(rs[Main].pc = "move" /\ rs'[Main].pc = "idle" /\ outcome'[Main] = "moved")
         => /\ MyTmp(Main) # {}
            /\ canon' = File(LastMerge(Main))
            /\ conflictCopies' = conflictCopies]_vars

\* a resync with entries is about to move although its temp upload left no
\* object behind
C28_MoveWithoutTempObject ==
    /\ rs[Main].pc = "move"
    /\ rs[Main].extra # EmptyDict
    /\ MyTmp(Main) = {}

\* C29: from the moment restore_queue has loaded entries from the dump file
\* until a flush takes them, each of them is in the dump file, so that a
\* kill of the process in between does not lose them.
C29_RestoredEntriesStayOnDisk ==
    \A w \in Writers :
        life[w].restored # EmptyDict
            => /\ queueDump[w].exists
               /\ Incorporated(life[w].restored, queueDump[w].data)

\* restore_queue has loaded the entries an interrupted run had dumped, and
\* no flush has taken them yet
C29_RestoredAndNotFlushed ==
    /\ rs[Main].pc = "idle"
    /\ life[Main].restored # EmptyDict
    /\ Incorporated(life[Main].restored, manifestQueue[Main])
    /\ life[Main].kills < MaxKills

----------------------------------------------------------------------------
(* Claims about the lock of the manifest queue (SpecFlush) *)

\* no queue_entry call is between its first and its last statement
NoQueueEntryRunning == \A t \in Threads : lk.qpc[t] = "idle"

\* every entry handed over is in a snapshot taken for
\* upload_manifest_resilient or in the queue in memory
InSnapshotOrQueue ==
    Incorporated(handed[Main],
                 Update(Update(lk.passed, lk.snapshot), manifestQueue[Main]))

\* upload_manifest_resilient runs without the lock
ResyncOutsideLock == rs[Main].pc # "idle" => lk.holder # Flusher

\* C30: with queue_entry calls of worker threads running concurrently with
\* upload_manifest_if_needed, every queued entry is in the snapshot passed to
\* upload_manifest_resilient or still in the queue in memory and in its dump
\* file, never in neither, and upload_manifest_resilient is called after
\* the lock is released.
C30_SnapshotAndClearIsAtomic ==
    /\ InSnapshotOrQueue
    /\ ResyncOutsideLock
    /\ (NoQueueEntryRunning /\ manifestQueue[Main] # EmptyDict)
         => /\ queueDump[Main].exists
            /\ Incorporated(manifestQueue[Main], queueDump[Main].data)

\* a worker has queued an entry while the resync of an earlier snapshot is
\* running
C30_QueuedDuringResync ==
    /\ rs[Main].pc \notin {"idle", "start"}
    /\ rs[Main].extra # EmptyDict
    /\ NoQueueEntryRunning
    /\ manifestQueue[Main] # EmptyDict

----------------------------------------------------------------------------
(* Claims about concurrent writers (SpecManifest) *)

\* C31: a resync never deletes or replaces a temp manifest object that a
\* different resync, still running, has created: whenever the temp object of
\* a running call disappears, the step is one of that call.
C31_OnlyOwnTempObjectsRemoved ==
    [][\A t \in remoteTmps \ remoteTmps' :
          (rs[t.owner].pc # "idle" /\ rs[t.owner].run = t.run)
              => rs'[t.owner] # rs[t.owner]]_vars

\* a writer is about to clean up while another writer's call has uploaded
\* its temp object and has not moved it yet
C31_CleanupMeetsForeignTemp ==
    \E w \in Writers, t \in remoteTmps :
        /\ rs[w].pc = "start"
        /\ t.owner # w
        /\ rs[t.owner].pc \in {"recheck", "move"}
        /\ rs[t.owner].run = t.run

----------------------------------------------------------------------------
(* Claims about the end of a pool's scope (SpecExec) *)

\* C32: once __exit__ of a pool has returned no task submitted to the pool
\* is still executing fn, also when the pool was interrupted before.
C32_NoTaskRunsAfterExit ==
    \A k \in Pools : phase[k] = "exited" => Running(k) = {}

\* a pool that was interrupted while a task was executing fn has left its
\* `with` block
C32_InterruptedPoolExited ==
    \E k \in Pools : /\ phase[k] = "exited"
                      /\ localFlag[k]
                      /\ \E i \in Items : task[k][i] \in {"ok", "failed", "running"}

----------------------------------------------------------------------------
(* Claims about the stage around a pool (SpecStage) *)

\* C33: after a map call the stage checks the pool's flag and the global
\* flag, and with either of them set it aborts instead of taking the result
\* list for a completed run.
C33_StageAbortsOnEitherFlag ==
    [][\A k \in Pools :
          (m[k].stage = "none" /\ m'[k].stage # "none" /\ Interrupted(k))
              => m'[k].stage = "aborted"]_vars

\* map has returned a short result list under the global flag and the stage
\* is about to check
C33_ShortListUnderGlobalFlag ==
    \E k \in Pools :
        /\ phase[k] = "in"
        /\ m[k].pc = "done"
        /\ m[k].outcome = "returned"
        /\ m[k].stage = "none"
        /\ globalFlag
        /\ Cardinality(m[k].results) < NumItems

----------------------------------------------------------------------------
(* Claims about the interrupt handler and the locks (SpecSignal) *)

\* C34: on_interrupt runs to completion whatever the main thread was doing
\* when the signal arrived: it never waits for a lock that the thread it
\* interrupted is holding.
C34_HandlerNeverWaitsForMainThread ==
    ~(lk.hpc = "waiting" /\ lk.holder = Flusher)

\* a signal arrived while upload_manifest_if_needed was under way, and
\* on_interrupt has written the queue
C34_HandlerFinishedDuringFlush ==
    /\ lk.hpc = "done"
    /\ lk.fpc = "released"
    /\ queueDump[Main].exists

----------------------------------------------------------------------------
(* Claims about I/O under the queue lock (SpecFlush) *)

----------------------------------------------------------------------------
(* Claims about the download of the remote manifest (SpecRemote) *)

\* C36: a download step of upload_manifest_resilient (the first download or
\* a re-check) that finds no canonical manifest on the remote yields the
\* empty baseline: no entries and the sha "".
C36_AbsentManifestGivesEmptyBaseline ==
    [][(/\ ~canon.exists
        /\ rs[Main].pc \in {"merge", "recheck"}
        /\ rs'[Main] # rs[Main])
         => /\ downloadFile'[Main] = NoFile
            /\ rs[Main].pc = "merge" => rs'[Main].remote_sha = NoFile]_vars

\* a call is about to download from a remote without a canonical manifest
\* while tmp_dir/manifest.remote.csv holds an earlier download
C36_DownloadWithEarlierFile ==
    /\ rs[Main].pc = "merge"
    /\ ~canon.exists
    /\ downloadFile[Main].exists

----------------------------------------------------------------------------
(* Claims about the in-progress marker (SpecLifecycle) *)

----------------------------------------------------------------------------
(* Claims about tasks under interrupt() (SpecExec) *)

----------------------------------------------------------------------------
(* Claims about the check after a repair (SpecReaudit) *)

\* C39: a row that repair_remote repaired with success, and whose entry a
\* flush then moved into the remote manifest, is in order for the next
\* integrity_check:
\* no missing, no mismatch, no second repair.
C39_RepairedRowPassesNextAudit ==
    [][(/\ audit.pc = "loop"
        /\ audit.todo # {}
        /\ audit' # audit
        /\ pc[FirstOf(audit.todo)] = "done"
        /\ call[FirstOf(audit.todo)].ret = "true"
        /\ outcome[Main] = "moved"
        /\ rem_hash(canon.data, db[FirstOf(audit.todo)].remote_path)
              = db[FirstOf(audit.todo)].hash_sha256)
         => classify(audit.remote_map, audit.rows[FirstOf(audit.todo)]) = "ok"]_vars

\* a later check, whose download of the manifest failed, has reached a row
\* that an earlier check repaired and flushed
C39_NextAuditAtRepairedRow ==
    /\ audit.pc = "loop"
    /\ audit.todo # {}
    /\ pc[FirstOf(audit.todo)] = "done"
    /\ call[FirstOf(audit.todo)].ret = "true"
    /\ outcome[Main] = "moved"
    /\ rem_hash(canon.data, db[FirstOf(audit.todo)].remote_path)
          = db[FirstOf(audit.todo)].hash_sha256
    /\ audit.signal = "stale"

----------------------------------------------------------------------------
(* Claims about the merged manifest (SpecManifest) *)

\* C40: the manifest a merge step of upload_manifest_resilient writes to the
\* local manifest file has, for every path, the hash of extra_entries if the
\* path is there, else that of the local entries loaded at the start of the
\* call, else that of the remote manifest just downloaded; the first merge
\* and every re-merge after a changed remote are computed this way, each
\* from the download of its own step.
C40_MergedIsRemoteThenLocalThenExtra ==
    [][\A w \in Writers :
         (/\ rs[w].pc \in {"merge", "recheck"}
          /\ rs'[w].pc = "loop"
          /\ localManifest'[w] # localManifest[w])
           => /\ localManifest'[w].exists
              /\ DOMAIN localManifest'[w].data =
                    DOMAIN downloadFile'[w].data \cup DOMAIN rs'[w].local_entries
                        \cup DOMAIN rs[w].extra
              /\ \A p \in DOMAIN localManifest'[w].data :
                    localManifest'[w].data[p] =
                        IF p \in DOMAIN rs[w].extra THEN rs[w].extra[p]
                        ELSE IF p \in DOMAIN rs'[w].local_entries
                          THEN rs'[w].local_entries[p]
                        ELSE downloadFile'[w].data[p]]_vars

\* a re-merge has been written: after one attempt the remote had changed,
\* and the file now holds the other writer's entry from the new download
\* next to an own entry whose queued hash replaced the one on the remote
C40_RemergedAfterChangedRemote ==
    \E w \in Writers :
        /\ rs[w].pc = "loop"
        /\ rs[w].attempt >= 1
        /\ localManifest[w].exists
        /\ \E p \in DOMAIN rs[w].extra \cap DOMAIN rs[w].remote_sha.data :
              /\ rs[w].extra[p] # rs[w].remote_sha.data[p]
              /\ localManifest[w].data[p] = rs[w].extra[p]
        /\ \E q \in DOMAIN localManifest[w].data : q \notin DOMAIN rs[w].extra

====
